---- MODULE Spec2Model ----
(***************************************************************************)
(* A model of the hostel AI agent (rental_room_mcp_client): the session    *)
(* store (session-manager.js), the tool catalog filter (tool-filter.js),   *)
(* the tool gateway (tool-executor.js), the model client                   *)
(* (ollama-client.js) and the orchestrator (agent.js, routes/chat.js).     *)
(*                                                                         *)
(* Text is modelled as a sequence of characters, one string per character: *)
(* an ASCII character is itself ("a", " ", "?"), any other character is    *)
(* its code point ("U+00E0" is a-grave, "U+0300" the combining grave).     *)
(***************************************************************************)
EXTENDS Integers, Sequences, FiniteSets, TLC

(***************************************************************************)
(* Generic helpers for JavaScript strings and arrays.                      *)
(***************************************************************************)

Range(s) == {s[i] : i \in DOMAIN s}

Min(a, b) == IF a <= b THEN a ELSE b

Max(a, b) == IF a >= b THEN a ELSE b

\* All sequences over S of length at most n.
BoundedSeq(S, n) == UNION {[1..k -> S] : k \in 0..n}

\* String.prototype.includes: needle occurs in hay as a contiguous substring.
Includes(hay, needle) ==
    \E i \in 1..(Len(hay) - Len(needle) + 1) :
        SubSeq(hay, i, i + Len(needle) - 1) = needle

\* Array.prototype.slice(0, end): a negative end counts from the end of the array.
Slice0(arr, end) ==
    IF end >= 0 THEN SubSeq(arr, 1, Min(end, Len(arr)))
    ELSE SubSeq(arr, 1, Max(Len(arr) + end, 0))

RECURSIVE Flatten(_)
Flatten(ss) == IF ss = <<>> THEN <<>> ELSE Head(ss) \o Flatten(Tail(ss))

\* The white-space characters of the model (\s): space, line feed, tab.
IsSpace(c) == c \in {" ", "\n", "\t"}

\* String.prototype.trim
RECURSIVE TrimStart(_)
TrimStart(s) == IF s # <<>> /\ IsSpace(Head(s)) THEN TrimStart(Tail(s)) ELSE s

RECURSIVE TrimEnd(_)
TrimEnd(s) ==
    IF s # <<>> /\ IsSpace(s[Len(s)]) THEN TrimEnd(SubSeq(s, 1, Len(s) - 1)) ELSE s

Trim(s) == TrimEnd(TrimStart(s))

(***************************************************************************)
(* Character tables, for the characters that occur in the keyword lists    *)
(* and in the messages of the model.                                       *)
(***************************************************************************)

\* String.prototype.toLowerCase, character by character.
ToLowerChar(c) ==
    CASE c = "A" -> "a" [] c = "B" -> "b" [] c = "C" -> "c" [] c = "D" -> "d"
      [] c = "E" -> "e" [] c = "F" -> "f" [] c = "G" -> "g" [] c = "H" -> "h"
      [] c = "I" -> "i" [] c = "J" -> "j" [] c = "K" -> "k" [] c = "L" -> "l"
      [] c = "M" -> "m" [] c = "N" -> "n" [] c = "O" -> "o" [] c = "P" -> "p"
      [] c = "Q" -> "q" [] c = "R" -> "r" [] c = "S" -> "s" [] c = "T" -> "t"
      [] c = "U" -> "u" [] c = "V" -> "v" [] c = "W" -> "w" [] c = "X" -> "x"
      [] c = "Y" -> "y" [] c = "Z" -> "z" [] c = "U+0110" -> "U+0111" [] c = "U+1ECA" -> "U+1ECB"
      [] c = "U+1EE4" -> "U+1EE5"
      [] OTHER -> c

ToLowerCase(text) == [i \in DOMAIN text |-> ToLowerChar(text[i])]

\* Canonical decomposition (NFD) of one character: base letter, then its combining marks.
NfdChar(c) ==
    CASE c = "U+00E0" -> <<"a", "U+0300">> [] c = "U+00E1" -> <<"a", "U+0301">>
      [] c = "U+00E2" -> <<"a", "U+0302">> [] c = "U+00E3" -> <<"a", "U+0303">>
      [] c = "U+00EA" -> <<"e", "U+0302">> [] c = "U+00EC" -> <<"i", "U+0300">>
      [] c = "U+00ED" -> <<"i", "U+0301">> [] c = "U+00F2" -> <<"o", "U+0300">>
      [] c = "U+00F3" -> <<"o", "U+0301">> [] c = "U+00F9" -> <<"u", "U+0300">>
      [] c = "U+00FD" -> <<"y", "U+0301">> [] c = "U+0103" -> <<"a", "U+0306">>
      [] c = "U+01A1" -> <<"o", "U+031B">> [] c = "U+01B0" -> <<"u", "U+031B">>
      [] c = "U+1EA1" -> <<"a", "U+0323">> [] c = "U+1EA3" -> <<"a", "U+0309">>
      [] c = "U+1EAD" -> <<"a", "U+0323", "U+0302">> [] c = "U+1EC7" -> <<"e", "U+0323", "U+0302">>
      [] c = "U+1ECA" -> <<"I", "U+0323">> [] c = "U+1ECB" -> <<"i", "U+0323">>
      [] c = "U+1ED1" -> <<"o", "U+0302", "U+0301">> [] c = "U+1ED3" -> <<"o", "U+0302", "U+0300">>
      [] c = "U+1EDD" -> <<"o", "U+031B", "U+0300">> [] c = "U+1EE3" -> <<"o", "U+031B", "U+0323">>
      [] c = "U+1EE4" -> <<"U", "U+0323">> [] c = "U+1EE5" -> <<"u", "U+0323">>
      [] OTHER -> <<c>>

\* The combining marks U+0300..U+036F that occur in the decompositions above.
CombiningMarks == {"U+0300", "U+0301", "U+0302", "U+0303", "U+0306", "U+0309", "U+031B", "U+0323"}

(***************************************************************************)
(* Tool catalog filter (src/agent/tool-filter.js).                         *)
(***************************************************************************)

TOOL_KEYWORDS ==
    [ auth |-> <<
        <<"l", "o", "g", "i", "n">>,
        <<"U+0111", "U+0103", "n", "g", " ", "n", "h", "U+1EAD", "p">>,
        <<"U+0111", "U+0103", "n", "g", " ", "k", "U+00FD">>,
        <<"r", "e", "g", "i", "s", "t", "e", "r">>,
        <<"l", "o", "g", "o", "u", "t">>,
        <<"t", "h", "o", "U+00E1", "t">>,
        <<"c", "u", "r", "r", "e", "n", "t", " ", "u", "s", "e", "r">>,
        <<"n", "g", "U+01B0", "U+1EDD", "i", " ", "d", "U+00F9", "n", "g", " ", "h", "i", "U+1EC7", "n", " ", "t", "U+1EA1", "i">>,
        <<"t", "o", "k", "e", "n">> >>,
      house |-> <<
        <<"n", "h", "U+00E0">>,
        <<"h", "o", "u", "s", "e">>,
        <<"b", "u", "i", "l", "d", "i", "n", "g">>,
        <<"t", "U+00F2", "a", " ", "n", "h", "U+00E0">>,
        <<"d", "U+00E3", "y", " ", "n", "h", "U+00E0">> >>,
      room |-> <<
        <<"p", "h", "U+00F2", "n", "g">>,
        <<"r", "o", "o", "m">>,
        <<"t", "r", "U+1ED1", "n", "g">>,
        <<"a", "v", "a", "i", "l", "a", "b", "l", "e">>,
        <<"v", "a", "c", "a", "n", "t">>,
        <<"e", "m", "p", "t", "y">> >>,
      tenant |-> <<
        <<"k", "h", "U+00E1", "c", "h">>,
        <<"t", "e", "n", "a", "n", "t">>,
        <<"n", "g", "U+01B0", "U+1EDD", "i", " ", "t", "h", "u", "U+00EA">>,
        <<"c", "U+01B0", " ", "d", "U+00E2", "n">> >>,
      contract |-> <<
        <<"h", "U+1EE3", "p", " ", "U+0111", "U+1ED3", "n", "g">>,
        <<"c", "o", "n", "t", "r", "a", "c", "t">>,
        <<"t", "h", "u", "U+00EA">> >>,
      service |-> <<
        <<"d", "U+1ECB", "c", "h", " ", "v", "U+1EE5">>,
        <<"s", "e", "r", "v", "i", "c", "e">>,
        <<"t", "i", "U+1EC7", "n", " ", "U+00ED", "c", "h">>,
        <<"u", "t", "i", "l", "i", "t", "y">> >>,
      invoice |-> <<
        <<"h", "U+00F3", "a", " ", "U+0111", "U+01A1", "n">>,
        <<"i", "n", "v", "o", "i", "c", "e">>,
        <<"b", "i", "l", "l">>,
        <<"t", "h", "a", "n", "h", " ", "t", "o", "U+00E1", "n">>,
        <<"p", "a", "y", "m", "e", "n", "t">> >>,
      user |-> <<
        <<"u", "s", "e", "r">>,
        <<"n", "g", "U+01B0", "U+1EDD", "i", " ", "d", "U+00F9", "n", "g">>,
        <<"t", "U+00E0", "i", " ", "k", "h", "o", "U+1EA3", "n">>,
        <<"a", "c", "c", "o", "u", "n", "t">> >> ]
ConversationalPatterns == <<
    <<"x", "i", "n", " ", "c", "h", "U+00E0", "o">>,
    <<"c", "h", "U+00E0", "o", " ", "b", "U+1EA1", "n">>,
    <<"h", "e", "l", "l", "o">>,
    <<"h", "i", " ">>,
    <<"h", "e", "y">>,
    <<"b", "U+1EA1", "n", " ", "l", "U+00E0", " ", "a", "i">>,
    <<"w", "h", "o", " ", "a", "r", "e", " ", "y", "o", "u">>,
    <<"b", "U+1EA1", "n", " ", "t", "U+00EA", "n", " ", "g", "U+00EC">>,
    <<"c", "U+1EA3", "m", " ", "U+01A1", "n">>,
    <<"t", "h", "a", "n", "k">>,
    <<"t", "h", "a", "n", "k", "s">>,
    <<"t", "U+1EA1", "m", " ", "b", "i", "U+1EC7", "t">>,
    <<"g", "o", "o", "d", "b", "y", "e">>,
    <<"b", "y", "e">> >>


NonEnglishChars == {"U+00E0", "U+00E1", "U+1EA1", "U+1EA3", "U+00E3", "U+00E2", "U+1EA7", "U+1EA5", "U+1EAD", "U+1EA9", "U+1EAB", "U+0103", "U+1EB1", "U+1EAF", "U+1EB7", "U+1EB3", "U+1EB5", "U+00E8", "U+00E9", "U+1EB9", "U+1EBB", "U+1EBD", "U+00EA", "U+1EC1", "U+1EBF", "U+1EC7", "U+1EC3", "U+1EC5", "U+00EC", "U+00ED", "U+1ECB", "U+1EC9", "U+0129", "U+00F2", "U+00F3", "U+1ECD", "U+1ECF", "U+00F5", "U+00F4", "U+1ED3", "U+1ED1", "U+1ED9", "U+1ED5", "U+1ED7", "U+01A1", "U+1EDD", "U+1EDB", "U+1EE3", "U+1EDF", "U+1EE1", "U+00F9", "U+00FA", "U+1EE5", "U+1EE7", "U+0169", "U+01B0", "U+1EEB", "U+1EE9", "U+1EF1", "U+1EED", "U+1EEF", "U+1EF3", "U+00FD", "U+1EF5", "U+1EF7", "U+1EF9", "U+0111"}


\* Object.entries(TOOL_KEYWORDS) visits the categories in insertion order.
KeywordCategories ==
    <<"auth", "house", "room", "tenant", "contract", "service", "invoice", "user">>

DefaultCategories == <<"house", "room", "tenant", "invoice">>

\* .normalize('NFD'): every character replaced by its canonical decomposition.
NormalizeNFD(text) == Flatten([i \in DOMAIN text |-> NfdChar(text[i])])

IsNotCombiningMark(c) == c \notin CombiningMarks

ReplaceDStroke(text) ==
    [i \in DOMAIN text |-> IF text[i] = "U+0111" THEN "d" ELSE text[i]]

\* normalize: lower case, NFD, combining marks removed, d-with-stroke to d.
normalize(text) ==
    ReplaceDStroke(SelectSeq(NormalizeNFD(ToLowerCase(text)), IsNotCombiningMark))

S_login == <<"l", "o", "g", "i", "n">>
S_register == <<"r", "e", "g", "i", "s", "t", "e", "r">>
S_auth == <<"a", "u", "t", "h">>
S_refresh_token == <<"r", "e", "f", "r", "e", "s", "h", "_", "t", "o", "k", "e", "n">>
S_house == <<"h", "o", "u", "s", "e">>
S_room == <<"r", "o", "o", "m">>
S_room_service == <<"r", "o", "o", "m", "_", "s", "e", "r", "v", "i", "c", "e">>
S_tenant == <<"t", "e", "n", "a", "n", "t">>
S_contract == <<"c", "o", "n", "t", "r", "a", "c", "t">>
S_service == <<"s", "e", "r", "v", "i", "c", "e">>
S_invoice == <<"i", "n", "v", "o", "i", "c", "e">>
S_payment == <<"p", "a", "y", "m", "e", "n", "t">>
S_user == <<"u", "s", "e", "r">>
S_password == <<"p", "a", "s", "s", "w", "o", "r", "d">>
T_get_all_houses == <<"g", "e", "t", "_", "a", "l", "l", "_", "h", "o", "u", "s", "e", "s">>
T_create_room == <<"c", "r", "e", "a", "t", "e", "_", "r", "o", "o", "m">>
T_add_service_to_room == <<"a", "d", "d", "_", "s", "e", "r", "v", "i", "c", "e", "_", "t", "o", "_", "r", "o", "o", "m">>
T_get_services_by_room == <<"g", "e", "t", "_", "s", "e", "r", "v", "i", "c", "e", "s", "_", "b", "y", "_", "r", "o", "o", "m">>
T_login == <<"l", "o", "g", "i", "n">>
T_get_invoice == <<"g", "e", "t", "_", "i", "n", "v", "o", "i", "c", "e">>
T_search_users == <<"s", "e", "a", "r", "c", "h", "_", "u", "s", "e", "r", "s">>
T_get_stats == <<"g", "e", "t", "_", "s", "t", "a", "t", "s">>
T_count_rooms_by_house_and_status == <<"c", "o", "u", "n", "t", "_", "r", "o", "o", "m", "s", "_", "b", "y", "_", "h", "o", "u", "s", "e", "_", "a", "n", "d", "_", "s", "t", "a", "t", "u", "s">>
T_get_room_service == <<"g", "e", "t", "_", "r", "o", "o", "m", "_", "s", "e", "r", "v", "i", "c", "e">>
T_get_all_tenants == <<"g", "e", "t", "_", "a", "l", "l", "_", "t", "e", "n", "a", "n", "t", "s">>
\* 'hello'
MsgHello == <<"h", "e", "l", "l", "o">>
\* (6 characters, with diacritics)
MsgCamOn == <<"c", "U+1EA3", "m", " ", "U+01A1", "n">>
\* 'Rooms in house 1?'
MsgRooms == <<"R", "o", "o", "m", "s", " ", "i", "n", " ", "h", "o", "u", "s", "e", " ", "1", "?">>
\* (11 characters, with diacritics)
MsgPhongTrong == <<"P", "h", "U+00F2", "n", "g", " ", "t", "r", "U+1ED1", "n", "g">>
\* (7 characters, with diacritics)
MsgDichVu == <<"D", "U+1ECA", "C", "H", " ", "V", "U+1EE4">>
\* (9 characters, with diacritics)
MsgDangNhap == <<"U+0110", "U+0103", "n", "g", " ", "n", "h", "U+1EAD", "p">>
\* (4 characters, with diacritics)
MsgThue == <<"t", "h", "u", "U+00EA">>
\* (4 characters, with diacritics)
MsgNhaDecomposed == <<"n", "h", "a", "U+0300">>
\* 'weather?'
MsgWeather == <<"w", "e", "a", "t", "h", "e", "r", "?">>
\* 'thanks, and which rooms are vacant in house 1?'
MsgLongThanks == <<"t", "h", "a", "n", "k", "s", ",", " ", "a", "n", "d", " ", "w", "h", "i", "c", "h", " ", "r", "o", "o", "m", "s", " ", "a", "r", "e", " ", "v", "a", "c", "a", "n", "t", " ", "i", "n", " ", "h", "o", "u", "s", "e", " ", "1", "?">>
\* ' Hi '
MsgHi == <<" ", "H", "i", " ">>
\* 'Hello!'
MsgHelloCap == <<"H", "e", "l", "l", "o", "!">>

\* getToolCategory: the first test that succeeds decides, in the order of the code.
getToolCategory(toolName) ==
    IF \/ Includes(toolName, S_login) \/ Includes(toolName, S_register)
       \/ Includes(toolName, S_auth) \/ Includes(toolName, S_refresh_token)
    THEN "auth"
    ELSE IF Includes(toolName, S_house) THEN "house"
    ELSE IF Includes(toolName, S_room) /\ ~Includes(toolName, S_room_service) THEN "room"
    ELSE IF Includes(toolName, S_tenant) THEN "tenant"
    ELSE IF Includes(toolName, S_contract) THEN "contract"
    ELSE IF Includes(toolName, S_service) \/ Includes(toolName, S_room_service) THEN "service"
    ELSE IF Includes(toolName, S_invoice) \/ Includes(toolName, S_payment) THEN "invoice"
    ELSE IF Includes(toolName, S_user) \/ Includes(toolName, S_password) THEN "user"
    ELSE "other"

\* The inner loop of detectRelevantCategories: the category is added at the first
\* of its keywords that the normalized message includes.
RECURSIVE AnyKeywordMatches(_, _)
AnyKeywordMatches(norm, keywords) ==
    IF keywords = <<>> THEN FALSE
    ELSE IF Includes(norm, normalize(Head(keywords))) THEN TRUE
    ELSE AnyKeywordMatches(norm, Tail(keywords))

\* The outer loop of detectRelevantCategories, over the categories in order.
RECURSIVE CollectCategories(_, _)
CollectCategories(norm, categories) ==
    IF categories = <<>> THEN <<>>
    ELSE (IF AnyKeywordMatches(norm, TOOL_KEYWORDS[Head(categories)])
          THEN <<Head(categories)>> ELSE <<>>)
         \o CollectCategories(norm, Tail(categories))

\* A plausible slip: no fallback, so a message matching nothing keeps no category.
detectRelevantCategories_noDefault(userMessage) ==
    CollectCategories(normalize(userMessage), KeywordCategories)

detectRelevantCategories(userMessage) ==
    LET relevantCategories == CollectCategories(normalize(userMessage), KeywordCategories)
    IN  IF Len(relevantCategories) = 0 THEN DefaultCategories ELSE relevantCategories

\* Map.prototype.set on a map kept as the sequence of its entries in insertion
\* order: an existing key keeps its place and takes the new value.
MapSet(entries, k, v) ==
    IF \E i \in DOMAIN entries : entries[i].key = k
    THEN [i \in DOMAIN entries |->
            IF entries[i].key = k THEN [key |-> k, value |-> v] ELSE entries[i]]
    ELSE Append(entries, [key |-> k, value |-> v])

\* new Map(pairs): the pairs are set from left to right.
RECURSIVE MapFromPairs(_, _)
MapFromPairs(pairs, acc) ==
    IF pairs = <<>> THEN acc
    ELSE MapFromPairs(Tail(pairs), MapSet(acc, Head(pairs)[1], Head(pairs)[2]))

MapValues(entries) == [i \in DOMAIN entries |-> entries[i].value]

RelevantTools(allTools, relevantCategories) ==
    LET InRelevant(t) == getToolCategory(t.name) \in Range(relevantCategories)
    IN  SelectSeq(allTools, InRelevant)

UniqueTools(relevantTools) ==
    MapValues(MapFromPairs([i \in DOMAIN relevantTools |->
                               <<relevantTools[i].name, relevantTools[i]>>], <<>>))

\* A plausible slip: the de-duplicated list returned without the slice.
filterRelevantTools_noSlice(allTools, userMessage, maxTools) ==
    UniqueTools(RelevantTools(allTools, detectRelevantCategories(userMessage)))

filterRelevantTools(allTools, userMessage, maxTools) ==
    LET relevantCategories == detectRelevantCategories(userMessage)
        relevantTools == RelevantTools(allTools, relevantCategories)
        uniqueTools == UniqueTools(relevantTools)
    IN  Slice0(uniqueTools, maxTools)


(***************************************************************************)
(* Session store (src/agent/session-manager.js).  The store is the map     *)
(* `sessions`; every operation takes the map and the clock readings it     *)
(* makes (Date.now()) and yields the new map and what it returns.          *)
(***************************************************************************)

\* JavaScript null or undefined, and the absent entry of the sessions map.
Null == "<null>"

NoSession == [present |-> FALSE]

defaultSessionId == "default"

\* const sid = sessionId || this.defaultSessionId
Sid(sessionId) == IF sessionId = Null THEN defaultSessionId ELSE sessionId

MsPerSecond == 1000

DefaultExpiresIn == 3600

\* additionalData.expiresIn || 3600: an absent or zero expiresIn is falsy.
ExpiresInOrDefault(additionalData) ==
    IF additionalData.hasExpiresIn /\ additionalData.expiresIn # 0
    THEN additionalData.expiresIn ELSE DefaultExpiresIn

\* setToken: the entry is created if absent, then five of its fields are assigned.
setToken(sess, clock, token, userId, sessionId, additionalData) ==
    LET sid == Sid(sessionId)
        expiresIn == ExpiresInOrDefault(additionalData)
        expiresAt == clock + expiresIn * MsPerSecond
    IN  [sess EXCEPT ![sid] =
            [present |-> TRUE,
             token |-> token,
             userId |-> userId,
             expiresAt |-> expiresAt,
             refreshToken |-> additionalData.refreshToken,
             loginTime |-> clock]]

\* A plausible slip: sessions.clear() where sessions.delete(sid) was meant.
clearSession_All(sess, sessionId) == [s \in DOMAIN sess |-> NoSession]

\* clearSession: idempotent removal of one entry.
clearSession(sess, sessionId) == [sess EXCEPT ![Sid(sessionId)] = NoSession]

\* clearAllSessions
clearAllSessions(sess) == [s \in DOMAIN sess |-> NoSession]

\* setRefreshToken: only an existing entry is updated.
setRefreshToken(sess, refreshToken, sessionId) ==
    IF sess[Sid(sessionId)].present
    THEN [sess EXCEPT ![Sid(sessionId)].refreshToken = refreshToken]
    ELSE sess

\* session.expiresAt && Date.now() > session.expiresAt (0 is falsy)
IsExpiredAt(session, clock) == session.expiresAt # 0 /\ clock > session.expiresAt

\* A plausible slip: the expired token is refused but the entry is left in the map.
getToken_noEvict(sess, clock, sessionId) ==
    LET session == sess[Sid(sessionId)]
    IN  IF ~session.present \/ session.token = Null
        THEN [token |-> Null, sessions |-> sess, warned |-> FALSE]
        ELSE IF IsExpiredAt(session, clock)
        THEN [token |-> Null, sessions |-> sess, warned |-> TRUE]
        ELSE [token |-> session.token, sessions |-> sess, warned |-> FALSE]

\* getToken: null for an absent entry or token; an expired entry is cleared (with
\* the warning "Token expired for session") and null returned; else the token.
getToken(sess, clock, sessionId) ==
    LET session == sess[Sid(sessionId)]
    IN  IF ~session.present \/ session.token = Null
        THEN [token |-> Null, sessions |-> sess, warned |-> FALSE]
        ELSE IF IsExpiredAt(session, clock)
        THEN [token |-> Null, sessions |-> clearSession(sess, Sid(sessionId)),
              warned |-> TRUE]
        ELSE [token |-> session.token, sessions |-> sess, warned |-> FALSE]

\* The context literal returned for an absent entry: expiresAt and refreshToken are
\* not set (0 and Null here).
UnauthenticatedContext(sid) ==
    [sessionId |-> sid, isAuthenticated |-> FALSE, token |-> Null, userId |-> Null,
     expiresAt |-> 0, refreshToken |-> Null]

\* A plausible slip: an unknown session id falls back to the default session.
getSessionContext_FallsBackToDefault(sess, clock1, clock2, sessionId) ==
    LET sid == IF sess[Sid(sessionId)].present THEN Sid(sessionId) ELSE defaultSessionId
        session == sess[sid]
        got == getToken(sess, clock2, sid)
    IN  IF ~session.present
        THEN [context |-> UnauthenticatedContext(sid), sessions |-> sess,
              warned |-> FALSE]
        ELSE [context |->
                [sessionId |-> sid,
                 isAuthenticated |->
                     /\ session.token # Null
                     /\ (session.expiresAt = 0 \/ clock1 <= session.expiresAt),
                 token |-> got.token,
                 userId |-> session.userId,
                 expiresAt |-> session.expiresAt,
                 refreshToken |-> session.refreshToken],
              sessions |-> got.sessions,
              warned |-> got.warned]

\* getSessionContext reads the clock twice: clock1 for isAuthenticated, clock2
\* inside getToken; the other fields are read from the entry fetched at the start.
getSessionContext(sess, clock1, clock2, sessionId) ==
    LET sid == Sid(sessionId)
        session == sess[sid]
        got == getToken(sess, clock2, sid)
    IN  IF ~session.present
        THEN [context |-> UnauthenticatedContext(sid), sessions |-> sess,
              warned |-> FALSE]
        ELSE [context |->
                [sessionId |-> sid,
                 isAuthenticated |->
                     /\ session.token # Null
                     /\ (session.expiresAt = 0 \/ clock1 <= session.expiresAt),
                 token |-> got.token,
                 userId |-> session.userId,
                 expiresAt |-> session.expiresAt,
                 refreshToken |-> session.refreshToken],
              sessions |-> got.sessions,
              warned |-> got.warned]


(***************************************************************************)
(* JSON, as JSON.parse and JSON.stringify treat it, for the values that    *)
(* occur in tool calls: objects, strings, numbers, true, false and null.   *)
(* A value is a record: `t` its type and, by type, the number `n`, the     *)
(* characters `s`, or the `keys` of an object with their `vals` (a         *)
(* function from the key's position to the value).                         *)
(***************************************************************************)

JValue(t, n, s, keys, vals) == [t |-> t, n |-> n, s |-> s, keys |-> keys, vals |-> vals]

JUndefined == JValue("undefined", 0, <<>>, <<>>, <<>>)

JNull == JValue("null", 0, <<>>, <<>>, <<>>)

JTrue == JValue("true", 0, <<>>, <<>>, <<>>)

JFalse == JValue("false", 0, <<>>, <<>>, <<>>)

JNumber(n) == JValue("number", n, <<>>, <<>>, <<>>)

JString(s) == JValue("string", 0, s, <<>>, <<>>)

JObject(keys, vals) == JValue("object", 0, <<>>, keys, vals)

EmptyObject == JObject(<<>>, <<>>)

\* A property is set: a new key goes to the end, a key already there keeps its
\* place and takes the new value (a repeated key of a JSON text: the last wins).
SetProperty(obj, key, val) ==
    IF \E i \in DOMAIN obj.keys : obj.keys[i] = key
    THEN JObject(obj.keys,
                 [i \in DOMAIN obj.keys |-> IF obj.keys[i] = key THEN val ELSE obj.vals[i]])
    ELSE JObject(Append(obj.keys, key), Append(obj.vals, val))

\* obj.key: undefined if the object has no such property.
GetProperty(obj, key) ==
    IF obj.t = "object" /\ \E i \in DOMAIN obj.keys : obj.keys[i] = key
    THEN obj.vals[CHOOSE i \in DOMAIN obj.keys : obj.keys[i] = key]
    ELSE JUndefined

\* Truthiness: undefined, null, false, 0 and "" are falsy.
Truthy(v) ==
    /\ v.t \notin {"undefined", "null", "false"}
    /\ v.t = "number" => v.n # 0
    /\ v.t = "string" => v.s # <<>>

\* a || b
OrElse(a, b) == IF Truthy(a) THEN a ELSE b

Digits == <<"0", "1", "2", "3", "4", "5", "6", "7", "8", "9">>

IsDigit(c) == \E d \in DOMAIN Digits : Digits[d] = c

DigitValue(c) == (CHOOSE d \in DOMAIN Digits : Digits[d] = c) - 1

\* The decimal digits of a natural number.
RECURSIVE NumberToChars(_)
NumberToChars(n) ==
    IF n < 10 THEN <<Digits[n + 1]>>
    ELSE Append(NumberToChars(n \div 10), Digits[(n % 10) + 1])

\* The characters of a string literal's body: the quote, the backslash, the line
\* feed and the tab escaped.
RECURSIVE EscapeChars(_)
EscapeChars(s) ==
    IF s = <<>> THEN <<>>
    ELSE (CASE Head(s) \in {"\"", "\\"} -> <<"\\", Head(s)>>
            [] Head(s) = "\n" -> <<"\\", "n">>
            [] Head(s) = "\t" -> <<"\\", "t">>
            [] OTHER -> <<Head(s)>>)
             \o EscapeChars(Tail(s))

Quote(s) == <<"\"">> \o EscapeChars(s) \o <<"\"">>

\* JSON.stringify(value): no white space, the properties in the object's order.
RECURSIVE Stringify(_)
Stringify(v) ==
    CASE v.t = "object" ->
           <<"{">>
             \o Flatten([i \in DOMAIN v.keys |->
                           (IF i > 1 THEN <<",">> ELSE <<>>)
                             \o Quote(v.keys[i]) \o <<":">> \o Stringify(v.vals[i])])
             \o <<"}">>
      [] v.t = "string" -> Quote(v.s)
      [] v.t = "number" -> NumberToChars(v.n)
      [] v.t = "true" -> <<"t", "r", "u", "e">>
      [] v.t = "false" -> <<"f", "a", "l", "s", "e">>
      [] OTHER -> <<"n", "u", "l", "l">>

\* What a parsing step yields: failure (a SyntaxError), or a value and the position
\* after it.
ParseFails == [ok |-> FALSE, v |-> JUndefined, next |-> 0]

Parsed(v, next) == [ok |-> TRUE, v |-> v, next |-> next]

\* The position of the first character at or after i that is no white space.
RECURSIVE SkipSpace(_, _)
SkipSpace(text, i) ==
    IF i <= Len(text) /\ IsSpace(text[i]) THEN SkipSpace(text, i + 1) ELSE i

StartsWithAt(text, i, word) ==
    /\ i + Len(word) - 1 <= Len(text)
    /\ SubSeq(text, i, i + Len(word) - 1) = word

\* \uXXXX: the character of the code point (an ASCII one is itself).
UnicodeEscape(h) ==
    IF ToLowerCase(h) = <<"0", "0", "5", "f">> THEN "_"
    ELSE IF ToLowerCase(h) = <<"0", "0", "7", "b">> THEN "{"
    ELSE IF ToLowerCase(h) = <<"0", "0", "7", "d">> THEN "}"
    ELSE "U+" \o h[1] \o h[2] \o h[3] \o h[4]

IsHex(c) == IsDigit(c) \/ ToLowerChar(c) \in {"a", "b", "c", "d", "e", "f"}

\* The position of the first character at or after i that does not stand for
\* itself in a string literal (the quote, the backslash, the line feed, the tab),
\* or Len(text) + 1 if there is none.
StringStop(text, i) ==
    IF \E j \in i..Len(text) : text[j] \in {"\"", "\\", "\n", "\t"}
    THEN CHOOSE j \in i..Len(text) :
             /\ text[j] \in {"\"", "\\", "\n", "\t"}
             /\ \A k \in i..(j - 1) : text[k] \notin {"\"", "\\", "\n", "\t"}
    ELSE Len(text) + 1

\* The body of a string literal from position i, its characters so far in acc, up
\* to the closing quote.  A line feed or a tab may not stand unescaped in it.
RECURSIVE ParseStringBody(_, _, _)
ParseStringBody(text, i, acc) ==
    IF i > Len(text) \/ text[i] \in {"\n", "\t"} THEN ParseFails
    ELSE IF text[i] = "\"" THEN Parsed(JString(acc), i + 1)
    ELSE IF text[i] # "\\"
    THEN ParseStringBody(text, StringStop(text, i),
                         acc \o SubSeq(text, i, StringStop(text, i) - 1))
    ELSE IF i + 1 > Len(text) THEN ParseFails
    ELSE IF text[i + 1] \in {"\"", "\\", "/"}
    THEN ParseStringBody(text, i + 2, Append(acc, text[i + 1]))
    ELSE IF text[i + 1] = "n" THEN ParseStringBody(text, i + 2, Append(acc, "\n"))
    ELSE IF text[i + 1] = "t" THEN ParseStringBody(text, i + 2, Append(acc, "\t"))
    ELSE IF /\ text[i + 1] = "u"
            /\ i + 5 <= Len(text)
            /\ \A k \in (i + 2)..(i + 5) : IsHex(text[k])
    THEN ParseStringBody(text, i + 6,
                         Append(acc, UnicodeEscape(SubSeq(text, i + 2, i + 5))))
    ELSE ParseFails

\* A number: 0, or digits that do not begin with 0.
RECURSIVE ParseDigits(_, _, _)
ParseDigits(text, i, acc) ==
    IF i <= Len(text) /\ IsDigit(text[i])
    THEN ParseDigits(text, i + 1, 10 * acc + DigitValue(text[i]))
    ELSE Parsed(JNumber(acc), i)

ParseNumber(text, i) ==
    IF text[i] = "0"
    THEN (IF i + 1 <= Len(text) /\ IsDigit(text[i + 1]) THEN ParseFails
          ELSE Parsed(JNumber(0), i + 1))
    ELSE ParseDigits(text, i, 0)

\* A value at position i (no white space before it), and the members of an object
\* from position i on, the object so far being obj.
RECURSIVE ParseValue(_, _)
RECURSIVE ParseMembers(_, _, _)

\* After a member: the object ends, or a comma and the next member follow.
MemberEnd(text, obj, after) ==
    IF after > Len(text) THEN ParseFails
    ELSE IF text[after] = "}" THEN Parsed(obj, after + 1)
    ELSE IF text[after] = "," THEN ParseMembers(text, SkipSpace(text, after + 1), obj)
    ELSE ParseFails

\* The value of the member has been read: the object takes the property.
MemberValue(text, obj, key, val) ==
    IF ~val.ok THEN ParseFails
    ELSE MemberEnd(text, SetProperty(obj, key.v.s, val.v), SkipSpace(text, val.next))

\* The colon of the member is due at position colon; its value follows.
MemberColon(text, obj, key, colon) ==
    IF colon > Len(text) \/ text[colon] # ":" THEN ParseFails
    ELSE MemberValue(text, obj, key, ParseValue(text, SkipSpace(text, colon + 1)))

\* The key of the member has been read.
MemberKey(text, obj, key) ==
    IF ~key.ok THEN ParseFails ELSE MemberColon(text, obj, key, SkipSpace(text, key.next))

\* An object whose opening brace has been read, j being the position after the
\* white space that follows it.
ObjectBody(text, j) ==
    IF j <= Len(text) /\ text[j] = "}" THEN Parsed(EmptyObject, j + 1)
    ELSE ParseMembers(text, j, EmptyObject)

ParseValue(text, i) ==
    IF i > Len(text) THEN ParseFails
    ELSE IF text[i] = "{" THEN ObjectBody(text, SkipSpace(text, i + 1))
    ELSE IF text[i] = "\"" THEN ParseStringBody(text, i + 1, <<>>)
    ELSE IF IsDigit(text[i]) THEN ParseNumber(text, i)
    ELSE IF StartsWithAt(text, i, <<"t", "r", "u", "e">>) THEN Parsed(JTrue, i + 4)
    ELSE IF StartsWithAt(text, i, <<"f", "a", "l", "s", "e">>) THEN Parsed(JFalse, i + 5)
    ELSE IF StartsWithAt(text, i, <<"n", "u", "l", "l">>) THEN Parsed(JNull, i + 4)
    ELSE ParseFails

ParseMembers(text, i, obj) ==
    IF i > Len(text) \/ text[i] # "\"" THEN ParseFails
    ELSE MemberKey(text, obj, ParseStringBody(text, i + 1, <<>>))

\* The value read must be all of the text, but for white space.
WholeText(text, val) ==
    IF val.ok /\ SkipSpace(text, val.next) = Len(text) + 1 THEN val ELSE ParseFails

\* JSON.parse(text): the whole text is one value between optional white space;
\* anything else throws (ok = FALSE).
JsonParse(text) == WholeText(text, ParseValue(text, SkipSpace(text, 1)))

(***************************************************************************)
(* Tool-call extractor (src/agent/ollama-client.js).                       *)
(***************************************************************************)

\* Three backticks (U+0060), the fence of a markdown code block.
Backticks == <<"U+0060", "U+0060", "U+0060">>

\* The first replace of the fence stripping: an opening fence (three backticks),
\* the word json after it, in any case, and the white space that follows are
\* removed from the start of the text.
StripFenceStart(text) ==
    IF ~StartsWithAt(text, 1, Backticks) THEN text
    ELSE LET rest == SubSeq(text, 4, Len(text))
         IN  IF Len(rest) >= 4 /\ ToLowerCase(SubSeq(rest, 1, 4)) = <<"j", "s", "o", "n">>
             THEN TrimStart(SubSeq(rest, 5, Len(rest)))
             ELSE TrimStart(rest)

\* The second replace: a closing fence at the end of the text is removed with the
\* white space around it.
StripFenceEnd(text) ==
    LET t == TrimEnd(text)
    IN  IF Len(t) >= 3 /\ SubSeq(t, Len(t) - 2, Len(t)) = Backticks
        THEN TrimEnd(SubSeq(t, 1, Len(t) - 3))
        ELSE text

\* content.trim(), the fences stripped, trim() again.
CleanContent(content) == Trim(StripFenceEnd(StripFenceStart(Trim(content))))

\* The position of the first brace at or after i, or Len(text) + 1 if there is
\* none: the loop of extractBalancedJsonObjects changes nothing on other characters.
NextBrace(text, i) ==
    IF \E j \in i..Len(text) : text[j] \in {"{", "}"}
    THEN CHOOSE j \in i..Len(text) :
             /\ text[j] \in {"{", "}"}
             /\ \A k \in i..(j - 1) : text[k] \notin {"{", "}"}
    ELSE Len(text) + 1

\* extractBalancedJsonObjects from the brace at position i on: depth counts the
\* braces, start is where the object being scanned began (0 for the code's -1: none).
RECURSIVE ScanBalanced(_, _, _, _, _)
ScanBalanced(text, i, depth, start, results) ==
    IF i > Len(text) THEN results
    ELSE IF text[i] = "{"
    THEN ScanBalanced(text, NextBrace(text, i + 1), depth + 1,
                      IF depth = 0 THEN i ELSE start, results)
    ELSE IF depth - 1 = 0 /\ start # 0
    THEN ScanBalanced(text, NextBrace(text, i + 1), 0, 0,
                      Append(results, SubSeq(text, start, i)))
    ELSE ScanBalanced(text, NextBrace(text, i + 1), depth - 1, start, results)

extractBalancedJsonObjects(text) == ScanBalanced(text, NextBrace(text, 1), 0, 0, <<>>)

K_tool == <<"t", "o", "o", "l">>

K_name == <<"n", "a", "m", "e">>

K_function == <<"f", "u", "n", "c", "t", "i", "o", "n">>

K_args == <<"a", "r", "g", "s">>

K_arguments == <<"a", "r", "g", "u", "m", "e", "n", "t", "s">>

K_parameters == <<"p", "a", "r", "a", "m", "e", "t", "e", "r", "s">>

\* The extractor's result: null (found = FALSE), or {name, arguments}.
NoParsedCall == [found |-> FALSE, name |-> <<>>, arguments |-> JUndefined]

ParsedCall(name, arguments) == [found |-> TRUE, name |-> name, arguments |-> arguments]

\* knownToolNames.includes(toolName), with strict equality: only a string can be in.
IsKnownTool(toolName, knownToolNames) ==
    toolName.t = "string" /\ toolName.s \in Range(knownToolNames)

\* parsed.tool || parsed.name || parsed.function
ToolNameOf(parsed) ==
    OrElse(OrElse(GetProperty(parsed, K_tool), GetProperty(parsed, K_name)),
           GetProperty(parsed, K_function))

\* parsed.args || parsed['arguments'] || parsed.parameters || {}
ArgsOf(parsed) ==
    OrElse(OrElse(OrElse(GetProperty(parsed, K_args), GetProperty(parsed, K_arguments)),
                  GetProperty(parsed, K_parameters)),
           EmptyObject)

\* The call with arguments that were given as a string and have been parsed; no
\* call if they are no JSON (the SyntaxError is caught by the strategy's try).
CallWithParsedArgs(name, parsedArgs) ==
    IF parsedArgs.ok THEN ParsedCall(name, parsedArgs.v) ELSE NoParsedCall

\* if (toolName && knownToolNames.includes(toolName)) return {name, arguments}
CallNamed(toolName, args, knownToolNames) ==
    IF ~(Truthy(toolName) /\ IsKnownTool(toolName, knownToolNames)) THEN NoParsedCall
    ELSE IF args.t # "string" THEN ParsedCall(toolName.s, args)
    ELSE CallWithParsedArgs(toolName.s, JsonParse(args.s))

\* The body shared by Strategies 1 and 2 for a parsed object: a call if the tool it
\* names is known.
CallOfObject(parsed, knownToolNames) ==
    CallNamed(ToolNameOf(parsed), ArgsOf(parsed), knownToolNames)

\* if (parsed && typeof parsed === 'object')
CallOfWholeText(parsed, knownToolNames) ==
    IF parsed.ok /\ parsed.v.t = "object" THEN CallOfObject(parsed.v, knownToolNames)
    ELSE NoParsedCall

\* Strategy 1: the whole text is a JSON object.
Strategy1(cleaned, knownToolNames) == CallOfWholeText(JsonParse(cleaned), knownToolNames)

\* The body of the loop of Strategy 2 for one substring, parsed.
CallOfSubstring(parsed, knownToolNames) ==
    IF parsed.ok THEN CallOfObject(parsed.v, knownToolNames) ELSE NoParsedCall

RECURSIVE Strategy2(_, _)

\* A substring that gives no call is skipped.
CallOrNext(call, rest, knownToolNames) ==
    IF call.found THEN call ELSE Strategy2(rest, knownToolNames)

\* Strategy 2: the first of the balanced brace-delimited substrings that parses to
\* a call of a known tool.
Strategy2(jsonObjects, knownToolNames) ==
    IF jsonObjects = <<>> THEN NoParsedCall
    ELSE CallOrNext(CallOfSubstring(JsonParse(Head(jsonObjects)), knownToolNames),
                    Tail(jsonObjects), knownToolNames)

\* String.prototype.indexOf: the first position (from 1) where needle occurs.
IndexOf(hay, needle) ==
    CHOOSE i \in 1..(Len(hay) - Len(needle) + 1) :
        /\ SubSeq(hay, i, i + Len(needle) - 1) = needle
        /\ \A j \in 1..(i - 1) : SubSeq(hay, j, j + Len(needle) - 1) # needle

\* after.match(/\{[\s\S]*\}/): from the first "{" to the last "}" after it; <<>> if
\* there is no such match.
GreedyBraces(after) ==
    LET opens == {i \in DOMAIN after : after[i] = "{"}
        first == CHOOSE i \in opens : \A j \in opens : i <= j
        closes == {i \in DOMAIN after : after[i] = "}" /\ i > first}
        last == CHOOSE i \in closes : \A j \in closes : i >= j
    IN  IF opens = {} THEN <<>>
        ELSE IF closes = {} THEN <<>>
        ELSE SubSeq(after, first, last)

\* The JSON found after the name, parsed: the wrapper of the call or the
\* arguments themselves; if it is no JSON the call has empty arguments.
CallOfMentionJson(toolName, args) ==
    IF ~args.ok THEN ParsedCall(toolName, EmptyObject)
    ELSE IF \/ GetProperty(args.v, K_tool) = JString(toolName)
            \/ GetProperty(args.v, K_name) = JString(toolName)
    THEN ParsedCall(toolName,
                    OrElse(OrElse(GetProperty(args.v, K_args),
                                  GetProperty(args.v, K_arguments)),
                           EmptyObject))
    ELSE ParsedCall(toolName, args.v)

\* if (jsonMatch) ...; without a match the call has empty arguments.
CallOfMention(toolName, jsonMatch) ==
    IF jsonMatch = <<>> THEN ParsedCall(toolName, EmptyObject)
    ELSE CallOfMentionJson(toolName, JsonParse(jsonMatch))

\* Strategy 3 for one known name that occurs in the text.
CallByMention(cleaned, toolName) ==
    CallOfMention(toolName,
                  GreedyBraces(SubSeq(cleaned, IndexOf(cleaned, toolName), Len(cleaned))))

\* Strategy 3: the first known name, in the order of the list, that the text mentions.
RECURSIVE Strategy3(_, _)
Strategy3(cleaned, knownToolNames) ==
    IF knownToolNames = <<>> THEN NoParsedCall
    ELSE IF Includes(cleaned, Head(knownToolNames))
    THEN CallByMention(cleaned, Head(knownToolNames))
    ELSE Strategy3(cleaned, Tail(knownToolNames))

\* The first of the strategies, in their order, that yields a call.
FirstCall(call1, call2, call3) ==
    IF call1.found THEN call1 ELSE IF call2.found THEN call2 ELSE call3

\* The three strategies on the cleaned text.
CallOfCleaned(cleaned, knownToolNames) ==
    FirstCall(Strategy1(cleaned, knownToolNames),
              Strategy2(extractBalancedJsonObjects(cleaned), knownToolNames),
              Strategy3(cleaned, knownToolNames))

\* The call an object names, known or not.
CallOfAnyName(parsed) ==
    IF parsed.ok /\ GetProperty(parsed.v, K_tool).t = "string"
    THEN ParsedCall(GetProperty(parsed.v, K_tool).s, GetProperty(parsed.v, K_args))
    ELSE NoParsedCall

\* A plausible slip: Strategy 3 runs before the strategies that parse the text.
parseToolCallFromContent_MentionFirst(content, knownToolNames) ==
    IF content = <<>> \/ Len(knownToolNames) = 0 THEN NoParsedCall
    ELSE Strategy3(CleanContent(content), knownToolNames)

\* A plausible slip: the tool named by the parsed object is not looked up in the
\* known names.
parseToolCallFromContent_AnyName(content, knownToolNames) ==
    IF content = <<>> \/ Len(knownToolNames) = 0 THEN NoParsedCall
    ELSE CallOfAnyName(JsonParse(CleanContent(content)))

\* parseToolCallFromContent: null for an empty text or no known names; else the
\* first of the three strategies that yields a call.
parseToolCallFromContent(content, knownToolNames) ==
    IF content = <<>> \/ Len(knownToolNames) = 0 THEN NoParsedCall
    ELSE CallOfCleaned(CleanContent(content), knownToolNames)

\* The object the tool-calling prompt asks the model for: {"tool": name, "args": args}
CallWrapper(name, args) == JObject(<<K_tool, K_args>>, <<JString(name), args>>)

(***************************************************************************)
(* Tool gateway (src/agent/tool-executor.js).                              *)
(***************************************************************************)

\* An outbound request, as the backends see it.  `system` names the system message
\* of a model request and `tools` are the names of the catalog put into it; `name`,
\* `args`, `authorization` and `userIdHeader` are those of a tool invocation (<<>>,
\* undefined and Null when not sent).
Request(to, system, tools, name, args, authorization, userIdHeader) ==
    [to |-> to, system |-> system, tools |-> tools, name |-> name, args |-> args,
     authorization |-> authorization, userIdHeader |-> userIdHeader]

\* The POST to /chat; the system message is the friendly one of Stage 1 ("chat"),
\* the system prompt ("decide"), the stricter instruction ("retry") or the request
\* for a summary ("summary").
ModelRequest(system, availableTools) ==
    Request("model", system, [i \in DOMAIN availableTools |-> availableTools[i].name],
            <<>>, JUndefined, Null, Null)

ListToolsRequest == Request("tools/list", "", <<>>, <<>>, JUndefined, Null, Null)

\* The session context of a call that passes none (sessionContext = null).
AbsentContext == [absent |-> TRUE]

\* A plausible slip: the headers are set for every context that is given, with or
\* without a token.
executeMcpToolRequest_AnyContext(toolName, args, sessionContext) ==
    IF sessionContext # AbsentContext
    THEN Request("tools/call", "", <<>>, toolName, args, sessionContext.token,
                 IF sessionContext.userId # Null THEN sessionContext.userId
                 ELSE "anonymous")
    ELSE Request("tools/call", "", <<>>, toolName, args, Null, Null)

\* executeMcpTool, up to the POST: the Authorization and X-User-Id headers are set
\* if a session context is given and carries a token.
executeMcpToolRequest(toolName, args, sessionContext) ==
    IF sessionContext # AbsentContext /\ sessionContext.token # Null
    THEN Request("tools/call", "", <<>>, toolName, args, sessionContext.token,
                 IF sessionContext.userId # Null THEN sessionContext.userId
                 ELSE "anonymous")
    ELSE Request("tools/call", "", <<>>, toolName, args, Null, Null)

K_success == <<"s", "u", "c", "c", "e", "s", "s">>

K_error == <<"e", "r", "r", "o", "r">>

\* What the tool backend does with an invocation: a 2xx response with a body, a
\* response with another status and a body ("status"), or no response at all
\* ("network"); `message` is the message of the error axios throws for the last two.
BackendAnswer(kind, data, message) == [kind |-> kind, data |-> data, message |-> message]

\* A plausible slip: the catch block rethrows instead of returning a value.
executeMcpToolResult_Rethrow(answer) ==
    IF answer.kind = "2xx" THEN [threw |-> FALSE, value |-> answer.data]
    ELSE [threw |-> TRUE, value |-> JUndefined]

\* executeMcpTool, from the backend's answer on: response.data unchanged, or from
\* the catch block {success: false, error: error.response?.data?.error ||
\* error.message}.  `threw` tells whether the call threw.
executeMcpToolResult(answer) ==
    IF answer.kind = "2xx" THEN [threw |-> FALSE, value |-> answer.data]
    ELSE [threw |-> FALSE,
          value |-> JObject(<<K_success, K_error>>,
                            <<JFalse,
                              IF answer.kind = "status"
                              THEN OrElse(GetProperty(answer.data, K_error),
                                          JString(answer.message))
                              ELSE JString(answer.message)>>)]

\* getAvailableTools: response.data.tools || [], and [] when the listing fails.
getAvailableTools(listing) == IF listing.ok THEN listing.tools ELSE <<>>

(***************************************************************************)
(* Model client (src/agent/ollama-client.js).  The text of a reply is kept  *)
(* twice: `content` is the text as a string, as it is shown to the user    *)
(* ("" when empty), `chars` its characters, which the extractor reads.     *)
(***************************************************************************)

NoMessage == [present |-> FALSE, content |-> "", chars |-> <<>>]

\* A tool call of a reply: {function: {name, arguments}}; the name is <<>> when
\* the entry has none.
ToolCall(name, arguments) == [name |-> name, arguments |-> arguments]

LlmError == "LLM Error: timeout of 60000ms exceeded"

\* tc => tc.function?.name
HasFunctionName(tc) == tc.name # <<>>

\* availableTools.map(t => t.name)
KnownToolNames(availableTools) == [i \in DOMAIN availableTools |-> availableTools[i].name]

\* The call parsed from the text of the reply, if there is a text and a known name.
ContentCall(message, knownToolNames) ==
    IF message.present /\ message.chars # <<>> /\ Len(knownToolNames) > 0
    THEN parseToolCallFromContent(message.chars, knownToolNames)
    ELSE NoParsedCall

\* What callOllamaWithTools returns for a reply: a call parsed from the text clears
\* the text; the native tool_calls are used only when the text gave no call.
ResponseWith(reply, parsed) ==
    IF parsed.found
    THEN [threw |-> FALSE, error |-> "",
          message |-> [reply.message EXCEPT !.content = "", !.chars = <<>>],
          toolCalls |-> <<ToolCall(parsed.name, parsed.arguments)>>]
    ELSE [threw |-> FALSE, error |-> "", message |-> reply.message,
          toolCalls |-> IF reply.message.present
                        THEN SelectSeq(reply.tool_calls, HasFunctionName)
                        ELSE <<>>]

\* callOllamaWithTools, from the backend's reply on.  A failed POST is rethrown as
\* "LLM Error: ...".
callOllamaWithTools(reply, availableTools) ==
    IF ~reply.ok
    THEN [threw |-> TRUE, error |-> LlmError, message |-> NoMessage, toolCalls |-> <<>>]
    ELSE ResponseWith(reply, ContentCall(reply.message, KnownToolNames(availableTools)))

(***************************************************************************)
(* Orchestrator (src/agent/agent.js).                                      *)
(***************************************************************************)

\* isNonEnglish: some character is in the class of Vietnamese letters (/i).
isNonEnglish(text) == \E i \in DOMAIN text : ToLowerChar(text[i]) \in NonEnglishChars

ConversationalMaxLength == 40

\* A plausible slip: the patterns are looked up in the text as typed, without
\* lowercasing it.
isConversationalMessage_CaseSensitive(text) ==
    /\ Len(Trim(text)) < ConversationalMaxLength
    /\ \E i \in DOMAIN ConversationalPatterns :
           Includes(Trim(text), ConversationalPatterns[i])

\* isConversationalMessage: short, and one of the patterns occurs in it.
isConversationalMessage(text) ==
    LET lower == Trim(ToLowerCase(text))
    IN  /\ Len(lower) < ConversationalMaxLength
        /\ \E i \in DOMAIN ConversationalPatterns :
               Includes(lower, ConversationalPatterns[i])

\* config.maxToolCalls || 5, with MAX_TOOL_CALLS unset.
maxToolCalls == 5

\* filterRelevantTools(allTools, userMessage, 15)
AgentFilterCap == 15

GreetingVi == "Xin chao! Toi la tro ly quan ly nha tro."

DoneVi == "Da xu ly xong."

SorryVi == "Xin loi, toi khong the xu ly yeu cau nay."

SorryEn == "Sorry, I could not process this request."

\* The apology of the failure response in the earlier processMessage.
Apology == "Xin loi, toi gap loi khi xu ly yeu cau cua ban. Vui long thu lai sau."

TypeErrorContent == "Cannot read properties of undefined (reading 'content')"

JsonSyntaxError == "Unexpected token in JSON at position 0"

\* The message of an error thrown by executeMcpTool, if it threw.
ExecuteError == "Request failed"

NoResponse ==
    [success |-> FALSE, response |-> "", toolsCalled |-> <<>>, toolResults |-> <<>>,
     userId |-> Null, sessionId |-> Null, isAuthenticated |-> FALSE]

\* _buildResponse; sessionContext defaults to {} (here the unauthenticated one),
\* so that isAuthenticated is false.
buildResponse(success, response, toolsCalled, toolResults, userId, sessionId, sessionContext) ==
    [success |-> success, response |-> response, toolsCalled |-> toolsCalled,
     toolResults |-> toolResults, userId |-> userId,
     sessionId |-> Sid(sessionId),
     isAuthenticated |-> sessionContext.isAuthenticated]

\* A plausible slip: the history is trimmed to the window of the prompt whenever a
\* turn is pushed.
addHistory_Windowed(hist, role, content, sessionId, userId, toolsCalled) ==
    IF Len(hist) >= 6
    THEN Append(Tail(hist), [role |-> role, content |-> content, userId |-> userId,
                             toolsCalled |-> toolsCalled, sessionId |-> Sid(sessionId)])
    ELSE Append(hist, [role |-> role, content |-> content, userId |-> userId,
                       toolsCalled |-> toolsCalled, sessionId |-> Sid(sessionId)])

\* _addHistory: one turn; userId and toolsCalled are stored only when given
\* (Null and <<>> here when not).  The timestamp, which nothing reads, is left out.
addHistory(hist, role, content, sessionId, userId, toolsCalled) ==
    Append(hist, [role |-> role, content |-> content, userId |-> userId,
                  toolsCalled |-> toolsCalled, sessionId |-> Sid(sessionId)])

\* userId || sessionContext.userId
UserIdOr(userId, sessionContext) ==
    IF userId # Null THEN userId ELSE sessionContext.userId

ToolNames(toolResults) == [i \in DOMAIN toolResults |-> toolResults[i].name]

WindowSize == 6

\* A plausible slip: the window of an earlier version, the last 10 turns.
HistoryWindow_LastTen(hist) == SubSeq(hist, Max(Len(hist) - 10, 0) + 1, Len(hist))

\* this.conversationHistory.slice(-6)
HistoryWindow(hist) == SubSeq(hist, Max(Len(hist) - WindowSize, 0) + 1, Len(hist))

\* msg => ({role: msg.role, content: msg.content})
PromptTurn(msg) == [role |-> msg.role, content |-> msg.content]

\* The messages of Stage 3: the system prompt, the window of the history, the
\* message of the user.
DecideMessages(hist, userMessage) ==
    <<[role |-> "system", content |-> "systemPrompt"]>>
      \o [i \in DOMAIN HistoryWindow(hist) |-> PromptTurn(HistoryWindow(hist)[i])]
      \o <<[role |-> "user", content |-> userMessage]>>

\* The local variables of one processMessage call, the await it is suspended at
\* (pc), and the requests it has sent.
IdlePass ==
    [pc |-> "idle", userMessage |-> <<>>, userId |-> Null, sessionId |-> Null,
     authToken |-> Null,
     sessionContext |-> UnauthenticatedContext(Null), isVietnamese |-> FALSE,
     allTools |-> <<>>, availableTools |-> <<>>, message |-> NoMessage,
     toolCalls |-> <<>>,
     index |-> 1, toolResults |-> <<>>, toolCallsExecuted |-> 0,
     messages |-> <<>>, summaryInput |-> <<>>,
     requests |-> <<>>, error |-> "", response |-> NoResponse]

\* A plausible slip: the catch block builds a response without the response text.
CatchResponse_NoResponse(L) ==
    [buildResponse(FALSE, "", <<>>, <<>>, L.userId, L.sessionId,
                   UnauthenticatedContext(Null)) EXCEPT !.response = Null]

\* The catch block: _buildResponse(false, `Error: ${error.message}`, [], [], userId,
\* sessionId).
CatchResponse(L) ==
    buildResponse(FALSE, "Error: " \o L.error, <<>>, <<>>, L.userId, L.sessionId,
                  UnauthenticatedContext(Null))

\* A plausible slip: the turns are recorded in a finally block, so that a failing
\* pass records them too.
Throw_Recorded(L, errorMessage) ==
    [L EXCEPT !.pc = "record", !.error = errorMessage,
              !.response = CatchResponse([L EXCEPT !.error = errorMessage])]

\* throw: control passes to the catch block of processMessage.
Throw(L, errorMessage) == [L EXCEPT !.pc = "catch", !.error = errorMessage]

\* A plausible slip: the cap compared with > instead of >=.
LoopBreaks_OffByOne(L) == L.toolCallsExecuted > maxToolCalls

\* if (toolCallsExecuted >= this.maxToolCalls) break
LoopBreaks(L) == L.toolCallsExecuted >= maxToolCalls

\* A plausible slip: the retry does not look at the catalog that was offered.
NeedsRetry_AnyCatalog(toolCalls, availableTools) == Len(toolCalls) = 0

\* if (toolCalls.length === 0 && availableTools.length > 0)
NeedsRetry(toolCalls, availableTools) == Len(toolCalls) = 0 /\ Len(availableTools) > 0

\* Stage 6, no tool executed: the reply text, or the fallback in the user's language.
DirectReplyText(L) ==
    IF L.message.content # "" THEN L.message.content
    ELSE IF L.isVietnamese THEN SorryVi ELSE SorryEn

K_result == <<"r", "e", "s", "u", "l", "t">>

\* ({tool: r.name, result: r.result}) as JSON.stringify writes it: a member whose
\* value is undefined is left out.
SummaryEntry(r) ==
    IF r.result.t = "undefined" THEN JObject(<<K_tool>>, <<JString(r.name)>>)
    ELSE JObject(<<K_tool, K_result>>, <<JString(r.name), r.result>>)

\* The tool results of the summary prompt: toolResults.map(r => ({tool: r.name,
\* result: r.result})).
SummaryInput(toolResults) == [i \in DOMAIN toolResults |-> SummaryEntry(toolResults[i])]

\* A plausible slip: the summary is requested whether or not a tool was executed.
AfterLoop_AlwaysSummarises(L) ==
    [L EXCEPT !.pc = "awaitSummary",
              !.summaryInput = SummaryInput(L.toolResults),
              !.requests = Append(@, ModelRequest("summary", <<>>))]

\* Stages 6 and 7 once the loop is over: with results, the summary is requested
\* (await); without, the reply text is final and the pass goes on to record it.
AfterLoop(L) ==
    IF Len(L.toolResults) > 0
    THEN [L EXCEPT !.pc = "awaitSummary",
                   !.summaryInput = SummaryInput(L.toolResults),
                   !.requests = Append(@, ModelRequest("summary", <<>>))]
    ELSE IF ~L.message.present THEN Throw(L, TypeErrorContent)
    ELSE [L EXCEPT !.pc = "record",
                   !.response = buildResponse(TRUE, DirectReplyText(L), <<>>, <<>>,
                                    UserIdOr(L.userId, L.sessionContext), L.sessionId,
                                    L.sessionContext)]

\* The result pushed when the try block of the loop throws.
ThrownResult(toolCall, errorMessage) ==
    [name |-> IF toolCall.name # <<>> THEN toolCall.name
              ELSE <<"u", "n", "k", "n", "o", "w", "n">>,
     hasResult |-> FALSE, result |-> JUndefined, hasError |-> TRUE,
     error |-> errorMessage]

\* The result pushed when executeMcpTool has returned.
ReturnedResult(toolCall, result) ==
    [name |-> toolCall.name, hasResult |-> TRUE, result |-> result,
     hasError |-> FALSE, error |-> Null]

\* typeof arguments === 'string' ? JSON.parse(arguments || '{}') : arguments || {}
ToolArgs(arguments) ==
    IF arguments.t = "string"
    THEN (IF arguments.s = <<>> THEN Parsed(EmptyObject, 0) ELSE JsonParse(arguments.s))
    ELSE Parsed(OrElse(arguments, EmptyObject), 0)

RECURSIVE ExecuteLoop(_)

\* A plausible slip: the arguments are parsed outside the try block of the loop, so
\* that a string that is no JSON throws into the catch block of processMessage.
ExecuteCall_Rethrows(L, toolCall, toolArgs) ==
    IF ~toolArgs.ok
    THEN Throw(L, JsonSyntaxError)
    ELSE [L EXCEPT
            !.pc = "awaitTool",
            !.requests = Append(@, executeMcpToolRequest(toolCall.name, toolArgs.v,
                                                         L.sessionContext))]

\* The body of the loop for one call, its arguments parsed: arguments given as a
\* string that is no JSON throw into the inner catch, which pushes an error
\* result and goes on; otherwise the tool is invoked (await).
ExecuteCall(L, toolCall, toolArgs) ==
    IF ~toolArgs.ok
    THEN ExecuteLoop([L EXCEPT
            !.toolResults = Append(@, ThrownResult(toolCall, JsonSyntaxError)),
            !.toolCallsExecuted = @ + 1,
            !.index = @ + 1])
    ELSE [L EXCEPT
            !.pc = "awaitTool",
            !.requests = Append(@, executeMcpToolRequest(toolCall.name, toolArgs.v,
                                                         L.sessionContext))]

\* Stage 5 from the head of the loop to the next await.
ExecuteLoop(L) ==
    IF L.index > Len(L.toolCalls) \/ LoopBreaks(L) THEN AfterLoop(L)
    ELSE ExecuteCall(L, L.toolCalls[L.index], ToolArgs(L.toolCalls[L.index].arguments))

\* A plausible slip: a retry without tool calls is followed by another retry.
AfterRetry_Again(L, retryResponse) ==
    IF Len(retryResponse.toolCalls) > 0
    THEN ExecuteLoop([L EXCEPT !.message = retryResponse.message,
                               !.toolCalls = retryResponse.toolCalls])
    ELSE [L EXCEPT !.pc = "awaitRetry",
                   !.requests = Append(@, ModelRequest("retry", L.availableTools))]

\* Stage 4 after the retry has returned: its reply replaces the first one only if
\* it carries tool calls; either way the loop of Stage 5 starts.
AfterRetry(L, retryResponse) ==
    IF Len(retryResponse.toolCalls) > 0
    THEN ExecuteLoop([L EXCEPT !.message = retryResponse.message,
                               !.toolCalls = retryResponse.toolCalls])
    ELSE ExecuteLoop(L)

\* A plausible slip: the user's turn is not pushed.
RecordTurns_NoUserTurn(hist, L) ==
    addHistory(hist, "assistant", L.response.response, L.sessionId, Null,
               L.response.toolsCalled)

\* The turns a finishing pass pushes.  Stage 1 passes no userId and no tools;
\* Stage 7 passes userId || sessionContext.userId and the names of the tools run.
RecordTurns(hist, L) ==
    IF isConversationalMessage(L.userMessage)
    THEN addHistory(addHistory(hist, "user", L.userMessage, L.sessionId, Null, <<>>),
                    "assistant", L.response.response, L.sessionId, Null, <<>>)
    ELSE addHistory(addHistory(hist, "user", L.userMessage, L.sessionId,
                               UserIdOr(L.userId, L.sessionContext), <<>>),
                    "assistant", L.response.response, L.sessionId, Null,
                    L.response.toolsCalled)

\* Stage 1 after the model's reply.
AfterChat(L, resp) ==
    IF resp.threw THEN Throw(L, resp.error)
    ELSE IF ~resp.message.present THEN Throw(L, TypeErrorContent)
    ELSE [L EXCEPT !.pc = "record",
                   !.response =
                       buildResponse(TRUE,
                                     IF resp.message.content # "" THEN resp.message.content
                                     ELSE GreetingVi,
                                     <<>>, <<>>, L.userId, L.sessionId, L.sessionContext)]

\* let { message, toolCalls } = llmResponse
WithReply(L, llmResponse) ==
    [L EXCEPT !.message = llmResponse.message, !.toolCalls = llmResponse.toolCalls]

\* Stage 4 after the first reply: without tool calls and with tools on offer the
\* model is asked again, otherwise the loop of Stage 5 starts.
AfterDecide(L, llmResponse) ==
    IF llmResponse.threw THEN Throw(L, llmResponse.error)
    ELSE IF NeedsRetry(llmResponse.toolCalls, L.availableTools)
    THEN [WithReply(L, llmResponse) EXCEPT
             !.pc = "awaitRetry",
             !.requests = Append(@, ModelRequest("retry", L.availableTools))]
    ELSE ExecuteLoop(WithReply(L, llmResponse))

\* Stage 5 after executeMcpTool: the result is pushed and the loop goes on.
AfterTool(L, result) ==
    ExecuteLoop([L EXCEPT
        !.toolResults =
            Append(@, IF result.threw
                      THEN ThrownResult(L.toolCalls[L.index], ExecuteError)
                      ELSE ReturnedResult(L.toolCalls[L.index], result.value)),
        !.toolCallsExecuted = @ + 1,
        !.index = @ + 1])

\* Stages 6 and 7 after the summary.
AfterSummary(L, finalResp) ==
    IF finalResp.threw THEN Throw(L, finalResp.error)
    ELSE IF ~finalResp.message.present THEN Throw(L, TypeErrorContent)
    ELSE [L EXCEPT !.pc = "record",
                   !.response =
                       buildResponse(TRUE,
                                     IF finalResp.message.content # ""
                                     THEN finalResp.message.content ELSE DoneVi,
                                     ToolNames(L.toolResults), L.toolResults,
                                     UserIdOr(L.userId, L.sessionContext),
                                     L.sessionId, L.sessionContext)]
(***************************************************************************)
(* State.                                                                  *)
(***************************************************************************)

VARIABLES
    sessions,       \* SessionManager.sessions: session id -> entry, or NoSession
    now,            \* the clock, Date.now(), in milliseconds
    ret,            \* the last session-store call: what it was and what it returned
    filterArgs,     \* the arguments of one filterRelevantTools call
    filterOut,      \* what the call computed: the categories and the tools returned
    extractArgs,    \* the arguments of one parseToolCallFromContent call
    extractOut,     \* what the call returned
    executeArgs,    \* the arguments of one executeMcpTool call, and the backend's answer
    executeOut,     \* the request the call sent and what it returned
    pass,           \* processMessage calls: their local variables and position
    conversationHistory     \* HostelAIAgent.conversationHistory

vars ==
    <<sessions, now, ret, filterArgs, filterOut, extractArgs, extractOut, executeArgs,
      executeOut, pass, conversationHistory>>

storeVars == <<sessions, now, ret>>

filterVars == <<filterArgs, filterOut>>

extractVars == <<extractArgs, extractOut>>

executeVars == <<executeArgs, executeOut>>

\* The variables of the calls of single functions.
callVars == <<filterVars, extractVars, executeVars>>

agentVars == <<pass, conversationHistory>>

(***************************************************************************)
(* Bounds and input domains.                                               *)
(***************************************************************************)

MaxCatalog == 3

MaxCap == 2

MaxTicks == 2

\* Tool descriptors: two catalog entries named get_all_houses differ in their
\* description.
Tool(n, d) == [name |-> n, description |-> d]

FilterDescriptors ==
    { Tool(T_get_all_houses, "v1"), Tool(T_get_all_houses, "v2"),
      Tool(T_create_room, "v1"), Tool(T_login, "v1"),
      Tool(T_get_invoice, "v1"), Tool(T_get_stats, "v1") }

FilterMessages ==
    { MsgRooms, MsgPhongTrong, MsgDichVu, MsgDangNhap, MsgNhaDecomposed,
      MsgWeather, MsgHello }

NotFiltered == [done |-> FALSE, categories |-> <<>>, tools |-> <<>>]

\* Session ids as callers pass them: null (the default session) or a named one.
SessionIdInputs == {Null, "s1"}

SessionIds == {Sid(s) : s \in SessionIdInputs}

\* Tokens are non-empty strings: the chat route stores a token only if it is truthy.
Tokens == {"tokA", "tokB"}

UserIds == {"u1"}

\* setToken's additionalData: expiresIn absent, one second, or zero seconds.
AdditionalDataInputs ==
    { [hasExpiresIn |-> FALSE, expiresIn |-> 0, refreshToken |-> Null],
      [hasExpiresIn |-> TRUE, expiresIn |-> 1, refreshToken |-> "r1"],
      [hasExpiresIn |-> TRUE, expiresIn |-> 0, refreshToken |-> Null] }

\* The clock advances by a second or by the default token lifetime.
TickSteps == {MsPerSecond, DefaultExpiresIn * MsPerSecond}

\* How many steps the clock has taken to reach t from its initial reading, 1.
TicksTaken(t) ==
    ((t - 1) \div (DefaultExpiresIn * MsPerSecond))
      + (((t - 1) % (DefaultExpiresIn * MsPerSecond)) \div MsPerSecond)

\* The arguments of a call of setToken.
SetTokenArgs(token, userId, additionalData) ==
    [token |-> token, userId |-> userId, additionalData |-> additionalData]

\* The last call of the store: its arguments (`given`, for setToken) and what it
\* returned.
NoCall == [op |-> "none", sessionId |-> Null, at |-> 0, token |-> Null,
           given |-> SetTokenArgs(Null, Null,
                                  [hasExpiresIn |-> FALSE, expiresIn |-> 0,
                                   refreshToken |-> Null]),
           context |-> UnauthenticatedContext(Null), warned |-> FALSE]

InitStoreVars ==
    /\ sessions = [s \in SessionIds |-> NoSession]
    /\ now = 1
    /\ ret = NoCall

InitFilterVars ==
    /\ filterArgs = [allTools |-> <<>>, userMessage |-> MsgHello, maxTools |-> 0]
    /\ filterOut = NotFiltered

NotExtracted == [done |-> FALSE, call |-> NoParsedCall]

InitExtractVars ==
    /\ extractArgs = [content |-> <<>>, knownToolNames |-> <<>>]
    /\ extractOut = NotExtracted

NotExecuted == [done |-> FALSE, request |-> ListToolsRequest, threw |-> FALSE,
                value |-> JUndefined]

InitExecuteVars ==
    /\ executeArgs = [toolName |-> <<>>, args |-> EmptyObject,
                      sessionContext |-> UnauthenticatedContext(Null),
                      answer |-> BackendAnswer("network", JUndefined, <<>>)]
    /\ executeOut = NotExecuted

\* No call of a single function is under way.
InitCallVars == InitFilterVars /\ InitExtractVars /\ InitExecuteVars

\* One processMessage call at a time.
PassIds == {1}

InitAgentVars ==
    /\ pass = [p \in PassIds |-> IdlePass]
    /\ conversationHistory = <<>>

(***************************************************************************)
(* The session store under every interleaving of its operations with the   *)
(* clock.                                                                  *)
(***************************************************************************)

\* The clock advances by one of the given steps.
Advance(steps) ==
    \E d \in steps :
        /\ TicksTaken(now + d) <= MaxTicks
        /\ now' = now + d
        /\ UNCHANGED <<sessions, ret>>

Tick == Advance(TickSteps)

StoreSetToken ==
    \E token \in Tokens, userId \in UserIds, sessionId \in SessionIdInputs,
       additionalData \in AdditionalDataInputs :
        /\ sessions' = setToken(sessions, now, token, userId, sessionId, additionalData)
        /\ ret' = [NoCall EXCEPT !.op = "setToken", !.sessionId = sessionId, !.at = now,
                                 !.given = SetTokenArgs(token, userId, additionalData)]
        /\ UNCHANGED now

StoreGetToken ==
    \E sessionId \in SessionIdInputs :
        LET got == getToken(sessions, now, sessionId)
        IN  /\ sessions' = got.sessions
            /\ ret' = [NoCall EXCEPT !.op = "getToken", !.sessionId = sessionId,
                                     !.at = now, !.token = got.token,
                                     !.warned = got.warned]
            /\ UNCHANGED now

\* The clock may advance between the two readings getSessionContext makes.
StoreGetSessionContext ==
    \E sessionId \in SessionIdInputs, d \in {0} \cup TickSteps :
        LET got == getSessionContext(sessions, now, now + d, sessionId)
        IN  /\ TicksTaken(now + d) <= MaxTicks
            /\ now' = now + d
            /\ sessions' = got.sessions
            /\ ret' = [NoCall EXCEPT !.op = "getSessionContext",
                                     !.sessionId = sessionId, !.at = now,
                                     !.token = got.context.token,
                                     !.context = got.context, !.warned = got.warned]

StoreClearSession ==
    \E sessionId \in SessionIdInputs :
        /\ sessions' = clearSession(sessions, sessionId)
        /\ ret' = [NoCall EXCEPT !.op = "clearSession", !.sessionId = sessionId,
                                 !.at = now]
        /\ UNCHANGED now

StoreClearAllSessions ==
    /\ sessions' = clearAllSessions(sessions)
    /\ ret' = [NoCall EXCEPT !.op = "clearAllSessions", !.at = now]
    /\ UNCHANGED now

StoreSetRefreshToken ==
    \E sessionId \in SessionIdInputs :
        /\ sessions' = setRefreshToken(sessions, "r2", sessionId)
        /\ ret' = [NoCall EXCEPT !.op = "setRefreshToken", !.sessionId = sessionId,
                                 !.at = now]
        /\ UNCHANGED now

InitStore == InitStoreVars /\ InitCallVars /\ InitAgentVars

NextStore ==
    \/ Tick /\ UNCHANGED <<callVars, agentVars>>
    \/ StoreSetToken /\ UNCHANGED <<callVars, agentVars>>
    \/ StoreGetToken /\ UNCHANGED <<callVars, agentVars>>
    \/ StoreGetSessionContext /\ UNCHANGED <<callVars, agentVars>>
    \/ StoreClearSession /\ UNCHANGED <<callVars, agentVars>>
    \/ StoreClearAllSessions /\ UNCHANGED <<callVars, agentVars>>
    \/ StoreSetRefreshToken /\ UNCHANGED <<callVars, agentVars>>

SpecStore == InitStore /\ [][NextStore]_vars

(***************************************************************************)
(* The filter applied to every bounded catalog, message and cap.           *)
(***************************************************************************)

InitFilter ==
    /\ filterArgs \in [allTools : BoundedSeq(FilterDescriptors, MaxCatalog),
                       userMessage : FilterMessages,
                       maxTools : 0..MaxCap]
    /\ filterOut = NotFiltered
    /\ InitExtractVars
    /\ InitExecuteVars
    /\ InitStoreVars
    /\ InitAgentVars

ApplyFilter ==
    /\ ~filterOut.done
    /\ filterOut' =
         [done |-> TRUE,
          categories |-> detectRelevantCategories(filterArgs.userMessage),
          tools |-> filterRelevantTools(filterArgs.allTools, filterArgs.userMessage,
                                        filterArgs.maxTools)]
    /\ UNCHANGED <<filterArgs, extractVars, executeVars, storeVars, agentVars>>

NextFilter == ApplyFilter

SpecFilter == InitFilter /\ [][NextFilter]_vars

(***************************************************************************)
(* The orchestrator behind the chat route.  A processMessage call runs     *)
(* from one await to the next in one step; between its steps the clock     *)
(* advances and the other routes are served.                               *)
(***************************************************************************)

MaxProposed == 8

ReplyText == "Here is the answer."

ReplyChars ==
    <<"H", "e", "r", "e", " ", "i", "s", " ", "t", "h", "e", " ", "a", "n", "s", "w", "e", "r", ".">>

CreateRoomText == "{\"tool\":\"create_room\",\"args\":{}}"

CreateRoomChars == Stringify(CallWrapper(T_create_room, EmptyObject))

LoginText == "{\"tool\":\"login\",\"args\":{}}"

LoginChars == Stringify(CallWrapper(T_login, EmptyObject))

ModelFails == [ok |-> FALSE, message |-> NoMessage, tool_calls |-> <<>>]

\* A reply with a message: its text (as a string and as characters) and its native
\* tool_calls.
ModelSays(content, chars, tool_calls) ==
    [ok |-> TRUE, message |-> [present |-> TRUE, content |-> content, chars |-> chars],
     tool_calls |-> tool_calls]

\* A reply without a message field.
ModelSaysNothing == [ok |-> TRUE, message |-> NoMessage, tool_calls |-> <<>>]

\* k native calls of create_room.
Proposed(k) == [i \in 1..k |-> ToolCall(T_create_room, EmptyObject)]

\* Native calls of several kinds: string arguments that are no JSON, an entry
\* without a function name, a tool that is not in the catalog.
MixedCalls ==
    << ToolCall(T_get_all_houses, JString(<<"{", "}">>)),
       ToolCall(T_create_room, JString(<<"o", "o", "p", "s">>)),
       ToolCall(<<>>, EmptyObject), ToolCall(T_get_stats, JUndefined) >>

\* The lengths of the lists of native calls: one call, and lists longer than the cap.
ProposedLengths == {1} \cup {k \in 1..MaxProposed : k >= maxToolCalls + 3}

TextReplies ==
    { ModelFails, ModelSaysNothing, ModelSays("", <<>>, <<>>),
      ModelSays(ReplyText, ReplyChars, <<>>) }

ToolReplies ==
    { ModelSays(CreateRoomText, CreateRoomChars, <<>>),
      ModelSays(LoginText, LoginChars, <<>>),
      ModelSays("", <<>>, MixedCalls) }
      \cup { ModelSays("", <<>>, Proposed(k)) : k \in ProposedLengths }

K_rooms == <<"r", "o", "o", "m", "s">>

\* The backend answers with the payload {"rooms":2}, or cannot be reached.
AnswerPayload == BackendAnswer("2xx", JObject(<<K_rooms>>, <<JNumber(2)>>), <<>>)

AnswerDown ==
    BackendAnswer("network", JUndefined,
                  <<"E", "C", "O", "N", "N", "R", "E", "F", "U", "S", "E", "D">>)

AgentCatalog ==
    << Tool(T_get_all_houses, "v1"), Tool(T_create_room, "v1"), Tool(T_login, "v1") >>

NoAdditionalData == [hasExpiresIn |-> FALSE, expiresIn |-> 0, refreshToken |-> Null]

\* What the backends and the callers may do: the request bodies of the chat route,
\* the answers of the tool gateway and of the model.  `maxTurns`: messages are
\* accepted while the history is shorter.
AgentDomain ==
    [messages |-> {MsgHelloCap, MsgCamOn, MsgRooms, MsgPhongTrong},
     userIds |-> {Null, "u1"},
     sessionIds |-> {Null},
     authTokens |-> {Null, "tokA"},
     listings |-> {[ok |-> FALSE, tools |-> <<>>], [ok |-> TRUE, tools |-> AgentCatalog]},
     chatReplies |-> TextReplies \cup {ModelSays(CreateRoomText, CreateRoomChars, Proposed(1))},
     decideReplies |-> TextReplies \cup ToolReplies,
     retryReplies |-> {ModelFails, ModelSays("", <<>>, <<>>),
                       ModelSays(CreateRoomText, CreateRoomChars, <<>>)},
     summaryReplies |-> TextReplies,
     toolAnswers |-> {AnswerPayload, AnswerDown},
     maxTurns |-> 1]

\* The step of a pass ends at an await (L.pc names it), or in the catch block, or
\* with the turns recorded and the response returned.
Settle(p, L) ==
    IF L.pc = "record"
    THEN /\ conversationHistory' = RecordTurns(conversationHistory, L)
         /\ pass' = [pass EXCEPT ![p] = [L EXCEPT !.pc = "done"]]
    ELSE IF L.pc = "catch"
    THEN /\ pass' = [pass EXCEPT ![p] = [L EXCEPT !.pc = "done",
                                                  !.response = CatchResponse(L)]]
         /\ UNCHANGED conversationHistory
    ELSE /\ pass' = [pass EXCEPT ![p] = L]
         /\ UNCHANGED conversationHistory

\* A plausible slip: the token of the body is stored only once the answer is sent,
\* so that the pass reads the session as it was.
StoreAuthToken_Deferred(sess, clock, authToken, userId, sessionId) == sess

\* if (authToken) sessionManager.setToken(authToken, userId || 'anonymous', sessionId)
StoreAuthToken(sess, clock, authToken, userId, sessionId) ==
    IF authToken # Null
    THEN setToken(sess, clock, authToken, IF userId # Null THEN userId ELSE "anonymous",
                  sessionId, NoAdditionalData)
    ELSE sess

\* POST /api/chat: the token of the body, if any, is stored; then processMessage
\* runs up to its first await: the chat request of Stage 1 or the tool listing.
Start(p, D) ==
    \E userMessage \in D.messages, userId \in D.userIds, sessionId \in D.sessionIds,
       authToken \in D.authTokens :
        LET stored == StoreAuthToken(sessions, now, authToken, userId, sessionId)
            got == getSessionContext(stored, now, now, sessionId)
            L == [IdlePass EXCEPT !.userMessage = userMessage,
                                  !.userId = userId,
                                  !.sessionId = sessionId,
                                  !.authToken = authToken,
                                  !.sessionContext = got.context,
                                  !.isVietnamese = isNonEnglish(userMessage)]
        IN  /\ pass[p].pc \in {"idle", "done"}
            /\ Len(conversationHistory) < D.maxTurns
            /\ sessions' = got.sessions
            /\ IF isConversationalMessage(userMessage)
               THEN Settle(p, [L EXCEPT !.pc = "awaitChat",
                                        !.requests = <<ModelRequest("chat", <<>>)>>])
               ELSE Settle(p, [L EXCEPT !.pc = "awaitList",
                                        !.requests = <<ListToolsRequest>>])
            /\ UNCHANGED <<now, ret, callVars>>

\* Stage 1 resumes with the model's reply.
ChatReply(p, D) ==
    \E reply \in D.chatReplies :
        /\ pass[p].pc = "awaitChat"
        /\ Settle(p, AfterChat(pass[p], callOllamaWithTools(reply, <<>>)))
        /\ UNCHANGED <<storeVars, callVars>>

\* The pass with the catalog listed and filtered, asking the model.
WithCatalog(L, allTools, availableTools) ==
    [L EXCEPT !.pc = "awaitDecide",
              !.allTools = allTools,
              !.availableTools = availableTools,
              !.messages = DecideMessages(conversationHistory, L.userMessage),
              !.requests = Append(@, ModelRequest("decide", availableTools))]

\* Stages 2 and 3: the catalog arrives, is filtered, and the model is asked.
ToolsListed(p, D) ==
    \E listing \in D.listings :
        /\ pass[p].pc = "awaitList"
        /\ Settle(p, WithCatalog(pass[p], getAvailableTools(listing),
                                 filterRelevantTools(getAvailableTools(listing),
                                                     pass[p].userMessage,
                                                     AgentFilterCap)))
        /\ UNCHANGED <<storeVars, callVars>>

\* Stage 4: the first reply.
DecideReply(p, D) ==
    \E reply \in D.decideReplies :
        /\ pass[p].pc = "awaitDecide"
        /\ Settle(p, AfterDecide(pass[p],
                                 callOllamaWithTools(reply, pass[p].availableTools)))
        /\ UNCHANGED <<storeVars, callVars>>

\* The retry's reply, or the error of the retry.
RetryOutcome(L, retryResponse) ==
    IF retryResponse.threw THEN Throw(L, retryResponse.error)
    ELSE AfterRetry(L, retryResponse)

\* Stage 4, the retry's reply: it replaces the first only if it carries tool calls.
RetryReply(p, D) ==
    \E reply \in D.retryReplies :
        /\ pass[p].pc = "awaitRetry"
        /\ Settle(p, RetryOutcome(pass[p],
                                  callOllamaWithTools(reply, pass[p].availableTools)))
        /\ UNCHANGED <<storeVars, callVars>>

\* A plausible slip: the session context is read again when a tool has returned,
\* so that the next invocation carries what the session holds by then.
ToolReturns_RefreshesContext(p, D) ==
    \E answer \in D.toolAnswers :
        /\ pass[p].pc = "awaitTool"
        /\ Settle(p, AfterTool([pass[p] EXCEPT !.sessionContext =
                                    getSessionContext(sessions, now, now,
                                                      pass[p].sessionId).context],
                               executeMcpToolResult(answer)))
        /\ UNCHANGED <<storeVars, callVars>>

\* Stage 5: executeMcpTool returns; the result is pushed and the loop goes on.
ToolReturns(p, D) ==
    \E answer \in D.toolAnswers :
        /\ pass[p].pc = "awaitTool"
        /\ Settle(p, AfterTool(pass[p], executeMcpToolResult(answer)))
        /\ UNCHANGED <<storeVars, callVars>>

\* Stages 6 and 7: the summary arrives.
SummaryReply(p, D) ==
    \E reply \in D.summaryReplies :
        /\ pass[p].pc = "awaitSummary"
        /\ Settle(p, AfterSummary(pass[p], callOllamaWithTools(reply, <<>>)))
        /\ UNCHANGED <<storeVars, callVars>>

\* POST /api/session/logout
Logout ==
    \E sessionId \in SessionIdInputs :
        /\ sessions' = clearSession(sessions, sessionId)
        /\ UNCHANGED <<now, ret, callVars, agentVars>>

\* GET /api/session: the context is read, which evicts an expired entry.
GetSession ==
    \E sessionId \in SessionIds :
        /\ sessions' = getSessionContext(sessions, now, now, sessionId).sessions
        /\ UNCHANGED <<now, ret, callVars, agentVars>>

\* POST /api/chat/clear-history
ClearHistory ==
    /\ conversationHistory' = <<>>
    /\ UNCHANGED <<storeVars, callVars, pass>>

\* The clock advances by the default lifetime of a token.
Hour ==
    /\ Advance({DefaultExpiresIn * MsPerSecond})
    /\ UNCHANGED <<callVars, agentVars>>

Init == InitStoreVars /\ InitCallVars /\ InitAgentVars

Next ==
    \/ \E p \in PassIds : Start(p, AgentDomain)
    \/ \E p \in PassIds : ChatReply(p, AgentDomain)
    \/ \E p \in PassIds : ToolsListed(p, AgentDomain)
    \/ \E p \in PassIds : DecideReply(p, AgentDomain)
    \/ \E p \in PassIds : RetryReply(p, AgentDomain)
    \/ \E p \in PassIds : ToolReturns(p, AgentDomain)
    \/ \E p \in PassIds : SummaryReply(p, AgentDomain)
    \/ Hour
    \/ Logout
    \/ GetSession
    \/ ClearHistory

Spec == Init /\ [][Next]_vars

(***************************************************************************)
(* The orchestrator over a sequence of messages, with fewer kinds of       *)
(* replies, so that passes start from a history that holds earlier turns.  *)
(***************************************************************************)

MaxTurns == 10

HistoryDomain ==
    [messages |-> {MsgHello, MsgPhongTrong},
     userIds |-> {Null},
     sessionIds |-> SessionIdInputs,
     authTokens |-> {Null},
     listings |-> {[ok |-> TRUE, tools |-> AgentCatalog]},
     chatReplies |-> {ModelFails, ModelSays(ReplyText, ReplyChars, <<>>)},
     decideReplies |-> {ModelFails, ModelSays(ReplyText, ReplyChars, <<>>),
                        ModelSays(CreateRoomText, CreateRoomChars, <<>>)},
     retryReplies |-> {ModelSays("", <<>>, <<>>)},
     summaryReplies |-> {ModelFails, ModelSays(ReplyText, ReplyChars, <<>>)},
     toolAnswers |-> {AnswerPayload},
     maxTurns |-> MaxTurns]

NextHistory ==
    \/ \E p \in PassIds : Start(p, HistoryDomain)
    \/ \E p \in PassIds : ChatReply(p, HistoryDomain)
    \/ \E p \in PassIds : ToolsListed(p, HistoryDomain)
    \/ \E p \in PassIds : DecideReply(p, HistoryDomain)
    \/ \E p \in PassIds : RetryReply(p, HistoryDomain)
    \/ \E p \in PassIds : ToolReturns(p, HistoryDomain)
    \/ \E p \in PassIds : SummaryReply(p, HistoryDomain)
    \/ ClearHistory

SpecHistory == Init /\ [][NextHistory]_vars


(***************************************************************************)
(* Two messages handled at once by the one orchestrator of the chat route: *)
(* each processMessage call runs from one await to the next, and the calls *)
(* interleave at their awaits.                                             *)
(***************************************************************************)

MaxConcurrentTurns == 2

ConcurrentPassIds == {1, 2}

ConcurrentDomain ==
    [messages |-> {MsgHello, MsgRooms},
     userIds |-> {Null},
     sessionIds |-> SessionIdInputs,
     authTokens |-> {Null},
     listings |-> {[ok |-> TRUE, tools |-> AgentCatalog]},
     chatReplies |-> {ModelFails, ModelSays(ReplyText, ReplyChars, <<>>)},
     decideReplies |-> {ModelSays(ReplyText, ReplyChars, <<>>),
                        ModelSays(CreateRoomText, CreateRoomChars, <<>>)},
     retryReplies |-> {ModelSays("", <<>>, <<>>)},
     summaryReplies |-> {ModelSays(DoneVi, <<>>, <<>>)},
     toolAnswers |-> {AnswerPayload},
     maxTurns |-> MaxConcurrentTurns]

InitConcurrent ==
    /\ InitStoreVars
    /\ InitCallVars
    /\ pass = [p \in ConcurrentPassIds |-> IdlePass]
    /\ conversationHistory = <<>>

NextConcurrent ==
    \/ \E p \in ConcurrentPassIds : Start(p, ConcurrentDomain)
    \/ \E p \in ConcurrentPassIds : ChatReply(p, ConcurrentDomain)
    \/ \E p \in ConcurrentPassIds : ToolsListed(p, ConcurrentDomain)
    \/ \E p \in ConcurrentPassIds : DecideReply(p, ConcurrentDomain)
    \/ \E p \in ConcurrentPassIds : RetryReply(p, ConcurrentDomain)
    \/ \E p \in ConcurrentPassIds : ToolReturns(p, ConcurrentDomain)
    \/ \E p \in ConcurrentPassIds : SummaryReply(p, ConcurrentDomain)
    \/ ClearHistory

SpecConcurrent == InitConcurrent /\ [][NextConcurrent]_vars

(***************************************************************************)
(* One message at a time, every request to the model and to the tool       *)
(* backend being answered in the end: by a reply, or by the failure that   *)
(* the timeout of the HTTP client turns a missing reply into.              *)
(***************************************************************************)

LiveDomain ==
    [messages |-> {MsgHelloCap, MsgRooms},
     userIds |-> {Null},
     sessionIds |-> {Null},
     authTokens |-> {Null, "tokA"},
     listings |-> {[ok |-> FALSE, tools |-> <<>>], [ok |-> TRUE, tools |-> AgentCatalog]},
     chatReplies |-> TextReplies,
     decideReplies |-> TextReplies \cup ToolReplies,
     retryReplies |-> {ModelFails, ModelSays("", <<>>, <<>>),
                       ModelSays(CreateRoomText, CreateRoomChars, <<>>),
                       ModelSays("", <<>>, Proposed(MaxProposed))},
     summaryReplies |-> TextReplies,
     toolAnswers |-> {AnswerPayload, AnswerDown},
     maxTurns |-> 1]

\* An outbound request of pass p is answered.
Answered(p) ==
    \/ ChatReply(p, LiveDomain)
    \/ ToolsListed(p, LiveDomain)
    \/ DecideReply(p, LiveDomain)
    \/ RetryReply(p, LiveDomain)
    \/ ToolReturns(p, LiveDomain)
    \/ SummaryReply(p, LiveDomain)

NextLive ==
    \/ \E p \in PassIds : Start(p, LiveDomain)
    \/ \E p \in PassIds : Answered(p)
    \/ ClearHistory

SpecLive == Init /\ [][NextLive]_vars /\ \A p \in PassIds : WF_vars(Answered(p))

(***************************************************************************)
(* The tool-call extractor alone: parseToolCallFromContent is applied to   *)
(* one reply text and one list of known names, drawn from the texts below. *)
(***************************************************************************)

ProseNone == <<>>

\* 'Result: '
ProseResult ==
    <<"R", "e", "s", "u", "l", "t", ":", " ">>

\* 'Sure, calling it now: (line feed) '
ProseSure ==
    <<"S", "u", "r", "e", ",", " ", "c", "a", "l", "l", "i", "n", "g", " ", "i", "t",
      " ", "n", "o", "w", ":", "\n">>

\* 'ok } '
ProseBrace ==
    <<"o", "k", " ", "}", " ">>

\* ' Hope that helps.'
ProseThanks ==
    <<" ", "H", "o", "p", "e", " ", "t", "h", "a", "t", " ", "h", "e", "l", "p", "s",
      ".">>

\* ' {done}'
ProseDone ==
    <<" ", "{", "d", "o", "n", "e", "}">>

\* 'I cannot help with that.'
TextPlain ==
    <<"I", " ", "c", "a", "n", "n", "o", "t", " ", "h", "e", "l", "p", " ", "w", "i",
      "t", "h", " ", "t", "h", "a", "t", ".">>

\* '{"tool":"drop_db","args":{}}'
TextUnknownTool ==
    <<"{", "\"", "t", "o", "o", "l", "\"", ":", "\"", "d", "r", "o", "p", "_", "d",
      "b", "\"", ",", "\"", "a", "r", "g", "s", "\"", ":", "{", "}", "}">>

\* '{"tool":"create\u005froom","args":{}}'
TextEscapedName ==
    <<"{", "\"", "t", "o", "o", "l", "\"", ":", "\"", "c", "r", "e", "a", "t", "e",
      "\\", "u", "0", "0", "5", "f", "r", "o", "o", "m", "\"", ",", "\"", "a", "r",
      "g", "s", "\"", ":", "{", "}", "}">>

\* The call of create_room with {"name":"A"} in a code block fenced as json.
TextFenced ==
    <<"U+0060", "U+0060", "U+0060", "j", "s", "o", "n", "\n", "{", "\"", "t", "o", "o",
      "l", "\"", ":", "\"", "c", "r", "e", "a", "t", "e", "_", "r", "o", "o", "m",
      "\"", ",", "\"", "a", "r", "g", "s", "\"", ":", "{", "\"", "n", "a", "m", "e",
      "\"", ":", "\"", "A", "\"", "}", "}", "\n", "U+0060", "U+0060", "U+0060">>

\* 'I will call create_room now.'
TextMention ==
    <<"I", " ", "w", "i", "l", "l", " ", "c", "a", "l", "l", " ", "c", "r", "e", "a",
      "t", "e", "_", "r", "o", "o", "m", " ", "n", "o", "w", ".">>

\* 'create_room {"floor":2}'
TextMentionArgs ==
    <<"c", "r", "e", "a", "t", "e", "_", "r", "o", "o", "m", " ", "{", "\"", "f", "l",
      "o", "o", "r", "\"", ":", "2", "}">>

\* '{"name":"create_room","arguments":"{\"floor\":2}"}'
TextStringArgs ==
    <<"{", "\"", "n", "a", "m", "e", "\"", ":", "\"", "c", "r", "e", "a", "t", "e",
      "_", "r", "o", "o", "m", "\"", ",", "\"", "a", "r", "g", "u", "m", "e", "n", "t",
      "s", "\"", ":", "\"", "{", "\\", "\"", "f", "l", "o", "o", "r", "\\", "\"", ":",
      "2", "}", "\"", "}">>

\* '{"function":"get_all_houses","parameters":{}}'
TextFunction ==
    <<"{", "\"", "f", "u", "n", "c", "t", "i", "o", "n", "\"", ":", "\"", "g", "e",
      "t", "_", "a", "l", "l", "_", "h", "o", "u", "s", "e", "s", "\"", ",", "\"", "p",
      "a", "r", "a", "m", "e", "t", "e", "r", "s", "\"", ":", "{", "}", "}">>

\* '{"tool":"get_all_houses","args":"oops"}'
TextBadStringArgs ==
    <<"{", "\"", "t", "o", "o", "l", "\"", ":", "\"", "g", "e", "t", "_", "a", "l",
      "l", "_", "h", "o", "u", "s", "e", "s", "\"", ",", "\"", "a", "r", "g", "s",
      "\"", ":", "\"", "o", "o", "p", "s", "\"", "}">>

\* '   (line feed) '
TextSpaces ==
    <<" ", " ", "\n">>

\* 'floor'
K_floor ==
    <<"f", "l", "o", "o", "r">>

\* 'note'
K_note ==
    <<"n", "o", "t", "e">>

\* 'extra'
K_extra ==
    <<"e", "x", "t", "r", "a">>

\* 'ok'
K_ok ==
    <<"o", "k">>

\* 'A'
V_A ==
    <<"A">>

\* 'a}b'
V_brace ==
    <<"a", "}", "b">>

\* 'say "hi"'
V_quote ==
    <<"s", "a", "y", " ", "\"", "h", "i", "\"">>

\* 'a (line feed) b'
V_lines ==
    <<"a", "\n", "b">>

\* '{'
V_open ==
    <<"{">>

\* Argument objects: {}, {"name":"A"}, {"floor":2,"extra":{"ok":true}}, and notes
\* with a brace, with quotes and with a line feed in them.
ArgName == JObject(<<K_name>>, <<JString(V_A)>>)

ArgNested ==
    JObject(<<K_floor, K_extra>>, <<JNumber(2), JObject(<<K_ok>>, <<JTrue>>)>>)

ArgBrace == JObject(<<K_note>>, <<JString(V_brace)>>)

ArgOpenBrace == JObject(<<K_note>>, <<JString(V_open)>>)

ArgQuote == JObject(<<K_note>>, <<JString(V_quote)>>)

ArgLines == JObject(<<K_note>>, <<JString(V_lines)>>)

ArgObjects == {EmptyObject, ArgName, ArgNested, ArgBrace, ArgOpenBrace, ArgQuote, ArgLines}

\* The tools the model's replies call.
ExtractNames == {T_create_room, T_get_all_houses}

ProseBefore == {ProseNone, ProseResult, ProseSure, ProseBrace}

ProseAfter == {ProseNone, ProseThanks, ProseDone}

\* Replies that hold no serialised call object of the prompt's format.
RawTexts ==
    { <<>>, TextSpaces, TextPlain, TextUnknownTool, TextEscapedName, TextFenced,
      TextMention, TextMentionArgs, TextStringArgs, TextFunction, TextBadStringArgs }

\* prose, JSON.stringify({tool: name, args: args}), prose
Embedded(before, name, args, after) == before \o Stringify(CallWrapper(name, args)) \o after

\* 'drop_db'
T_drop_db == <<"d", "r", "o", "p", "_", "d", "b">>

\* 'oops'
V_oops == <<"o", "o", "p", "s">>

\* {"note":"get_all_houses"}: arguments that mention another tool.
ArgMention == JObject(<<K_note>>, <<JString(T_get_all_houses)>>)

\* The call objects of replies that hold several: of a known or an unknown tool,
\* with arguments that are an object or a string that is no JSON.
CandidateCalls ==
    { CallWrapper(n, a) : n \in ExtractNames \cup {T_drop_db},
                         a \in {ArgName, JString(V_oops)} }

\* Two call objects in one reply, a space between them.
TwoCalls(first, second) == Stringify(first) \o <<" ">> \o Stringify(second)

SeveralCallTexts ==
    { TwoCalls(c1, c2) : c1 \in CandidateCalls, c2 \in CandidateCalls }
      \cup { Stringify(CallWrapper(T_create_room, ArgMention)) }

ExtractTexts ==
    RawTexts \cup SeveralCallTexts
      \cup { Embedded(b, n, a, e) :
                 b \in ProseBefore, n \in ExtractNames, a \in ArgObjects,
                 e \in ProseAfter }

KnownLists ==
    { <<>>, <<T_create_room>>, <<T_get_all_houses>>, <<T_get_all_houses, T_create_room>>,
      <<T_login, T_get_all_houses>> }

InitExtract ==
    /\ extractArgs \in [content : ExtractTexts, knownToolNames : KnownLists]
    /\ extractOut = NotExtracted
    /\ InitFilterVars
    /\ InitExecuteVars
    /\ InitStoreVars
    /\ InitAgentVars

\* One call parseToolCallFromContent(content, knownToolNames).
ApplyExtract ==
    /\ ~extractOut.done
    /\ extractOut' =
           [done |-> TRUE,
            call |-> parseToolCallFromContent(extractArgs.content,
                                              extractArgs.knownToolNames)]
    /\ UNCHANGED <<extractArgs, filterVars, executeVars, storeVars, agentVars>>

NextExtract == ApplyExtract

SpecExtract == InitExtract /\ [][NextExtract]_vars

(***************************************************************************)
(* The tool gateway alone: executeMcpTool is called once, with a tool, its *)
(* arguments and a session context, and the backend answers.               *)
(***************************************************************************)

\* 'Forbidden'
ErrForbidden ==
    <<"F", "o", "r", "b", "i", "d", "d", "e", "n">>

\* 'room not found'
ErrNotFound ==
    <<"r", "o", "o", "m", " ", "n", "o", "t", " ", "f", "o", "u", "n", "d">>

\* 'Request failed with status code 403'
Msg403 ==
    <<"R", "e", "q", "u", "e", "s", "t", " ", "f", "a", "i", "l", "e", "d", " ", "w",
      "i", "t", "h", " ", "s", "t", "a", "t", "u", "s", " ", "c", "o", "d", "e", " ",
      "4", "0", "3">>

\* 'Request failed with status code 502'
Msg502 ==
    <<"R", "e", "q", "u", "e", "s", "t", " ", "f", "a", "i", "l", "e", "d", " ", "w",
      "i", "t", "h", " ", "s", "t", "a", "t", "u", "s", " ", "c", "o", "d", "e", " ",
      "5", "0", "2">>

\* 'connect ECONNREFUSED 127.0.0.1:3001'
MsgRefused ==
    <<"c", "o", "n", "n", "e", "c", "t", " ", "E", "C", "O", "N", "N", "R", "E", "F",
      "U", "S", "E", "D", " ", "1", "2", "7", ".", "0", ".", "0", ".", "1", ":", "3",
      "0", "0", "1">>

\* 'Bad Gateway'
BodyBadGateway ==
    <<"B", "a", "d", " ", "G", "a", "t", "e", "w", "a", "y">>


\* The answers of the tool backend: a payload; a payload that reports an error of
\* the tool; a status outside 2xx with an error in the body, with a body without
\* one, with an empty one, with a text body; and no answer at all.
ExecuteAnswers ==
    { BackendAnswer("2xx", JObject(<<K_rooms>>, <<JNumber(2)>>), <<>>),
      BackendAnswer("2xx", JObject(<<K_success, K_error>>, <<JFalse, JString(ErrNotFound)>>),
                    <<>>),
      BackendAnswer("status", JObject(<<K_error>>, <<JString(ErrForbidden)>>), Msg403),
      BackendAnswer("status", EmptyObject, Msg403),
      BackendAnswer("status", JObject(<<K_error>>, <<JString(<<>>)>>), Msg502),
      BackendAnswer("status", JString(BodyBadGateway), Msg502),
      BackendAnswer("network", JUndefined, MsgRefused) }

\* Session contexts: none, without a token, with a token and a user, with a token
\* only.
ExecuteContexts ==
    { AbsentContext, UnauthenticatedContext(defaultSessionId),
      [sessionId |-> "s1", isAuthenticated |-> TRUE, token |-> "tokA", userId |-> "u1",
       expiresAt |-> DefaultExpiresIn * MsPerSecond + 1, refreshToken |-> Null],
      [sessionId |-> "s1", isAuthenticated |-> TRUE, token |-> "tokA", userId |-> Null,
       expiresAt |-> DefaultExpiresIn * MsPerSecond + 1, refreshToken |-> Null] }

InitExecute ==
    /\ executeArgs \in [toolName : ExtractNames,
                        args : {EmptyObject, ArgName, ArgNested},
                        sessionContext : ExecuteContexts,
                        answer : ExecuteAnswers]
    /\ executeOut = NotExecuted
    /\ InitFilterVars
    /\ InitExtractVars
    /\ InitStoreVars
    /\ InitAgentVars

\* One call executeMcpTool(toolName, args, sessionContext), answered by the backend.
ApplyExecute ==
    LET result == executeMcpToolResult(executeArgs.answer)
    IN  /\ ~executeOut.done
        /\ executeOut' =
               [done |-> TRUE,
                request |-> executeMcpToolRequest(executeArgs.toolName, executeArgs.args,
                                                  executeArgs.sessionContext),
                threw |-> result.threw,
                value |-> result.value]
        /\ UNCHANGED <<executeArgs, filterVars, extractVars, storeVars, agentVars>>

NextExecute == ApplyExecute

SpecExecute == InitExecute /\ [][NextExecute]_vars

(***************************************************************************)
(* The filter applied to catalogs of one tool, for every tool name made of *)
(* a few words: the classifier getToolCategory decides whether the tool    *)
(* is kept.                                                                *)
(***************************************************************************)

MaxWords == 3

W_get == <<"g", "e", "t">>

W_stats == <<"s", "t", "a", "t", "s">>

\* The words tool names are made of: some that the classifier looks for, some not.
NameWords == {W_get, W_stats, S_login, S_house, S_room, S_service, S_tenant}

\* The words joined by underscores, as in get_room_service.
RECURSIVE JoinWords(_)
JoinWords(words) ==
    IF Len(words) = 1 THEN words[1]
    ELSE words[1] \o <<"_">> \o JoinWords(Tail(words))

CategoryNames == {JoinWords(ws) : ws \in BoundedSeq(NameWords, MaxWords) \ {<<>>}}

CategoryMessages == {MsgDichVu, MsgRooms, MsgWeather}

InitCategory ==
    /\ filterArgs \in [allTools : {<<Tool(n, "v1")>> : n \in CategoryNames},
                       userMessage : CategoryMessages,
                       maxTools : {1}]
    /\ filterOut = NotFiltered
    /\ InitExtractVars
    /\ InitExecuteVars
    /\ InitStoreVars
    /\ InitAgentVars

NextCategory == ApplyFilter

SpecCategory == InitCategory /\ [][NextCategory]_vars
(***************************************************************************)
(* Replies of the model that are no well-formed call: the extractor on     *)
(* each of them, and a pass whose model answers with them.                 *)
(***************************************************************************)

ReplyBadStringArgs == "{\"tool\":\"get_all_houses\",\"args\":\"oops\"}"

\* '{"tool":"create_room","args":{'
TextTruncated ==
    <<"{", "\"", "t", "o", "o", "l", "\"", ":", "\"", "c", "r", "e", "a", "t", "e",
      "_", "r", "o", "o", "m", "\"", ",", "\"", "a", "r", "g", "s", "\"", ":", "{">>

ReplyTruncated == "{\"tool\":\"create_room\",\"args\":{"

ReplyMention == "I will call create_room now."

ReplyUnknownTool == "{\"tool\":\"drop_db\",\"args\":{}}"

\* 'create_room {"tool":"create_room","args":"oops"}'
TextMentionBadArgs ==
    <<"c", "r", "e", "a", "t", "e", "_", "r", "o", "o", "m", " ", "{", "\"", "t", "o",
      "o", "l", "\"", ":", "\"", "c", "r", "e", "a", "t", "e", "_", "r", "o", "o", "m",
      "\"", ",", "\"", "a", "r", "g", "s", "\"", ":", "\"", "o", "o", "p", "s", "\"",
      "}">>

ReplyMentionBadArgs == "create_room {\"tool\":\"create_room\",\"args\":\"oops\"}"

\* 'I will } call {"tool":"create_room","args":{"floor":'
TextStrayBrace ==
    <<"I", " ", "w", "i", "l", "l", " ", "}", " ", "c", "a", "l", "l", " ", "{", "\"",
      "t", "o", "o", "l", "\"", ":", "\"", "c", "r", "e", "a", "t", "e", "_", "r", "o",
      "o", "m", "\"", ",", "\"", "a", "r", "g", "s", "\"", ":", "{", "\"", "f", "l",
      "o", "o", "r", "\"", ":">>

ReplyStrayBrace == "I will } call {\"tool\":\"create_room\",\"args\":{\"floor\":"


MalformedTexts ==
    { TextBadStringArgs, TextTruncated, TextMention, TextUnknownTool, TextMentionBadArgs,
      TextStrayBrace }

MalformedReplies ==
    { ModelSays(ReplyBadStringArgs, TextBadStringArgs, <<>>),
      ModelSays(ReplyTruncated, TextTruncated, <<>>),
      ModelSays(ReplyMention, TextMention, <<>>),
      ModelSays(ReplyUnknownTool, TextUnknownTool, <<>>),
      ModelSays(ReplyMentionBadArgs, TextMentionBadArgs, <<>>),
      ModelSays(ReplyStrayBrace, TextStrayBrace, <<>>),
      ModelSays("", <<>>, MixedCalls) }

\* The tool backend and the summarising model answer; only the deciding model
\* misbehaves.
MalformedDomain ==
    [messages |-> {MsgRooms},
     userIds |-> {Null},
     sessionIds |-> {Null},
     authTokens |-> {Null},
     listings |-> {[ok |-> FALSE, tools |-> <<>>], [ok |-> TRUE, tools |-> AgentCatalog]},
     chatReplies |-> {ModelSays(ReplyText, ReplyChars, <<>>)},
     decideReplies |-> MalformedReplies,
     retryReplies |-> MalformedReplies,
     summaryReplies |-> {ModelSays(ReplyText, ReplyChars, <<>>), ModelSays("", <<>>, <<>>)},
     toolAnswers |-> {AnswerPayload, AnswerDown},
     maxTurns |-> 1]

InitMalformed ==
    /\ extractArgs \in [content : MalformedTexts, knownToolNames : KnownLists]
    /\ extractOut = NotExtracted
    /\ InitFilterVars
    /\ InitExecuteVars
    /\ InitStoreVars
    /\ InitAgentVars

NextMalformed ==
    \/ ApplyExtract
    \/ \E p \in PassIds : Start(p, MalformedDomain)
    \/ \E p \in PassIds : ToolsListed(p, MalformedDomain)
    \/ \E p \in PassIds : DecideReply(p, MalformedDomain)
    \/ \E p \in PassIds : RetryReply(p, MalformedDomain)
    \/ \E p \in PassIds : ToolReturns(p, MalformedDomain)
    \/ \E p \in PassIds : SummaryReply(p, MalformedDomain)

SpecMalformed == InitMalformed /\ [][NextMalformed]_vars

(***************************************************************************)
(* Two chat requests on the one session, with and without a token in the   *)
(* body, while the session is logged out, read, and the clock advances.    *)
(***************************************************************************)

SessionPassIds == {1, 2}

SessionsDomain ==
    [messages |-> {MsgRooms},
     userIds |-> {Null, "u1"},
     sessionIds |-> {Null},
     authTokens |-> {Null, "tokA", "tokB"},
     listings |-> {[ok |-> TRUE, tools |-> AgentCatalog]},
     chatReplies |-> {ModelSays(ReplyText, ReplyChars, <<>>)},
     decideReplies |-> {ModelSays(ReplyText, ReplyChars, <<>>), ModelSays("", <<>>, Proposed(2))},
     retryReplies |-> {ModelSays("", <<>>, <<>>)},
     summaryReplies |-> {ModelSays(ReplyText, ReplyChars, <<>>)},
     toolAnswers |-> {AnswerPayload},
     maxTurns |-> 2]

InitSessions ==
    /\ InitStoreVars
    /\ InitCallVars
    /\ pass = [p \in SessionPassIds |-> IdlePass]
    /\ conversationHistory = <<>>

NextSessions ==
    \/ \E p \in SessionPassIds : Start(p, SessionsDomain)
    \/ \E p \in SessionPassIds : ToolsListed(p, SessionsDomain)
    \/ \E p \in SessionPassIds : DecideReply(p, SessionsDomain)
    \/ \E p \in SessionPassIds : RetryReply(p, SessionsDomain)
    \/ \E p \in SessionPassIds : ToolReturns(p, SessionsDomain)
    \/ \E p \in SessionPassIds : SummaryReply(p, SessionsDomain)
    \/ Hour
    \/ Logout
    \/ GetSession

SpecSessions == InitSessions /\ [][NextSessions]_vars
(***************************************************************************)
(* Claims about the session store.                                         *)
(***************************************************************************)

\* A step in which getToken(sessionId) was called and returned.
GetTokenStep(sessionId) ==
    /\ ret'.op = "getToken" /\ ret'.sessionId = sessionId
    /\ <<ret, sessions>>' # <<ret, sessions>>

\* A step in which getSessionContext(sessionId) was called and returned.
GetSessionContextStep(sessionId) ==
    /\ ret'.op = "getSessionContext" /\ ret'.sessionId = sessionId
    /\ <<ret, sessions>>' # <<ret, sessions>>

\* The session's entry holds a token whose expiry the clock has passed.
Expired(sessionId) ==
    /\ sessions[Sid(sessionId)].present
    /\ now > sessions[Sid(sessionId)].expiresAt

\* C6: getToken returns the token only while now <= expiresAt; once the clock has
\* passed expiresAt, getToken returns absent and evicts the entry, and
\* getSessionContext reports isAuthenticated = false from then on.
C6_TokenOnlyWhileUnexpired ==
    [][\A sessionId \in SessionIdInputs :
          /\ GetTokenStep(sessionId) =>
                /\ ret'.token # Null =>
                      /\ sessions[Sid(sessionId)].present
                      /\ ret'.token = sessions[Sid(sessionId)].token
                      /\ now <= sessions[Sid(sessionId)].expiresAt
                /\ Expired(sessionId) =>
                      /\ ret'.token = Null
                      /\ sessions'[Sid(sessionId)] = NoSession
                /\ ~sessions[Sid(sessionId)].present => ret'.token = Null
          /\ (/\ GetSessionContextStep(sessionId)
              /\ (Expired(sessionId) \/ ~sessions[Sid(sessionId)].present)) =>
                /\ ~ret'.context.isAuthenticated
                /\ ret'.context.token = Null
                /\ sessions'[Sid(sessionId)] = NoSession
      ]_vars

\* C6 witness: getToken has just refused and evicted an expired token, after the
\* same session's token had been set.
C6_Witness ==
    /\ ret.op = "getToken" /\ ret.token = Null /\ ret.warned
    /\ sessions[Sid(ret.sessionId)] = NoSession
    /\ TicksTaken(now) > 0

(***************************************************************************)
(* Claims about the filter.                                                *)
(***************************************************************************)

\* C8: filterRelevantTools returns at most `cap` tools, and every tool it returns
\* is an element of the input catalog.
C8_FilterBoundedSubset ==
    filterOut.done =>
        /\ Len(filterOut.tools) <= filterArgs.maxTools
        /\ \A i \in DOMAIN filterOut.tools :
               filterOut.tools[i] \in Range(filterArgs.allTools)

\* C8 witness: more distinct relevant tools than the cap, so the slice cut some.
C8_Witness ==
    /\ filterOut.done
    /\ filterArgs.maxTools > 0
    /\ Len(filterOut.tools) = filterArgs.maxTools
    /\ Cardinality({t.name : t \in {u \in Range(filterArgs.allTools) :
                          getToolCategory(u.name) \in Range(filterOut.categories)}})
         > filterArgs.maxTools

\* The index of the first catalog entry with the name n.
FirstIndexOfName(catalog, n) ==
    CHOOSE i \in DOMAIN catalog :
        /\ catalog[i].name = n
        /\ \A j \in 1..(i - 1) : catalog[j].name # n

\* C9: de-duplication by name keeps the first catalog entry of each name, and the
\* kept tools stand in the order of their first appearance in the catalog.
C9_FirstOccurrenceWins ==
    filterOut.done =>
        /\ \A i \in DOMAIN filterOut.tools :
               filterOut.tools[i] =
                   filterArgs.allTools[FirstIndexOfName(filterArgs.allTools,
                                                        filterOut.tools[i].name)]
        /\ \A i, j \in DOMAIN filterOut.tools :
               i < j => FirstIndexOfName(filterArgs.allTools, filterOut.tools[i].name)
                          < FirstIndexOfName(filterArgs.allTools, filterOut.tools[j].name)

\* The categories one of whose keywords occurs in the normalized message.
MatchingCategories(userMessage) ==
    { c \in Range(KeywordCategories) :
        \E k \in Range(TOOL_KEYWORDS[c]) :
            Includes(normalize(userMessage), normalize(k)) }

\* C10: a message that matches no category makes exactly house, room, tenant and
\* invoice relevant, and only tools of these four are returned; otherwise exactly
\* the matching categories are relevant.
C10_DefaultCategories ==
    filterOut.done =>
        LET matching == MatchingCategories(filterArgs.userMessage)
        IN  /\ matching = {} =>
                /\ Range(filterOut.categories) = {"house", "room", "tenant", "invoice"}
                /\ \A i \in DOMAIN filterOut.tools :
                       getToolCategory(filterOut.tools[i].name)
                           \in {"house", "room", "tenant", "invoice"}
            /\ matching # {} => Range(filterOut.categories) = matching
            /\ \A i \in DOMAIN filterOut.tools :
                   getToolCategory(filterOut.tools[i].name) \in Range(filterOut.categories)

\* C10 witness: nothing matched, the catalog holds a tool outside the default
\* categories, and the filter returned some tools but not that one.
C10_Witness ==
    /\ filterOut.done
    /\ MatchingCategories(filterArgs.userMessage) = {}
    /\ \E t \in Range(filterArgs.allTools) : getToolCategory(t.name) = "auth"
    /\ filterOut.tools # <<>>
    /\ \A i \in DOMAIN filterOut.tools : getToolCategory(filterOut.tools[i].name) # "auth"

\* The entry of the session is absent: never set, cleared, or evicted.
Absent(sessionId) == ~sessions[Sid(sessionId)].present

\* C17, for every store that is reached and every session id: getSessionContext
\* yields a context; for an absent entry it is the explicit one, with
\* isAuthenticated = false and token = null, and the store is left as it is; an
\* omitted session id gives what "default" gives.
C17_AbsentContext ==
    \A sessionId \in SessionIdInputs, d \in {0} \cup TickSteps :
        LET got == getSessionContext(sessions, now, now + d, sessionId)
        IN  /\ got.context.isAuthenticated \in BOOLEAN
            /\ got.context.sessionId = Sid(sessionId)
            /\ Absent(sessionId) =>
                  /\ got.context.isAuthenticated = FALSE
                  /\ got.context.token = Null
                  /\ got.context.userId = Null
                  /\ got.sessions = sessions
            /\ getSessionContext(sessions, now, now + d, Null)
                  = getSessionContext(sessions, now, now + d, defaultSessionId)

\* C17, for the calls that are made: a call for an absent entry returns the
\* explicit unauthenticated context and creates no entry.
C17_AbsentCall ==
    ( /\ ret'.op = "getSessionContext"
      /\ ret'.at = now
      /\ Absent(ret'.sessionId) ) =>
        /\ ret'.context.isAuthenticated = FALSE
        /\ ret'.context.token = Null
        /\ ret'.context.sessionId = Sid(ret'.sessionId)
        /\ sessions' = sessions

\* C17: getSessionContext never throws: for a session id that is absent from the
\* store (never set, cleared, or evicted) it returns an explicit context with
\* isAuthenticated = false and token = null, and an omitted session id denotes the
\* fixed "default" session.
C17_UnknownSessionUnauthenticated == []C17_AbsentContext /\ [][C17_AbsentCall]_vars

\* C17 witness: the context was asked for with the id omitted while the default
\* session had no entry, past the default lifetime of a token; the other session
\* has an entry.
C17_Witness ==
    /\ ret.op = "getSessionContext"
    /\ ret.sessionId = Null
    /\ ret.context = UnauthenticatedContext(defaultSessionId)
    /\ Absent(Null)
    /\ sessions["s1"].present
    /\ now > DefaultExpiresIn * MsPerSecond

\* The operations on one session: setToken, setRefreshToken, clearSession, and the
\* reads getToken and getSessionContext, which evict an expired entry.
OneSessionOps == {"setToken", "setRefreshToken", "clearSession", "getToken", "getSessionContext"}

\* C18: operations on different sessions are independent: setToken,
\* setRefreshToken, clearSession and the eviction on read, applied to session A,
\* leave the entry of every session B other than A, and the results of getToken(B)
\* and getSessionContext(B), unchanged.
C18_SessionsIndependent ==
    [][ ret'.op \in OneSessionOps =>
          \A B \in SessionIds \ {Sid(ret'.sessionId)} :
              /\ sessions'[B] = sessions[B]
              /\ getToken(sessions', now', B).token = getToken(sessions, now', B).token
              /\ getSessionContext(sessions', now', now', B).context
                    = getSessionContext(sessions, now', now', B).context ]_vars

\* C18 witness: the expired entry of s1 was evicted by a read while the default
\* session kept its entry.
C18_Witness ==
    /\ ret.op = "getToken"
    /\ ret.sessionId = "s1"
    /\ ret.warned
    /\ ~sessions["s1"].present
    /\ sessions[defaultSessionId].present

(***************************************************************************)
(* Claims about the tool-call extractor.                                   *)
(***************************************************************************)

\* C11: round trip.  For a known tool name n and an argument object a, the
\* extractor applied to the serialisation of {"tool": n, "args": a}, n being among
\* the known names, returns the call of n with arguments equal to a.
C11_RoundTrip ==
    \A n \in ExtractNames, a \in ArgObjects :
        ( /\ extractOut.done
          /\ extractArgs.content = Stringify(CallWrapper(n, a))
          /\ n \in Range(extractArgs.knownToolNames) )
            => extractOut.call = ParsedCall(n, a)

\* The nested arguments went through the round trip, create_room being the second
\* of the known names.
C11_Witness ==
    /\ extractOut.done
    /\ extractArgs.content = Stringify(CallWrapper(T_create_room, ArgNested))
    /\ extractArgs.knownToolNames = <<T_get_all_houses, T_create_room>>
    /\ extractOut.call = ParsedCall(T_create_room, ArgNested)

\* C12: for a text made of prose, one well-formed call object naming a known
\* tool, and prose again, the extractor returns the embedded call: the name and
\* the arguments of the embedded object.
C12_EmbeddedCall ==
    \A b \in ProseBefore, n \in ExtractNames, a \in ArgObjects, e \in ProseAfter :
        ( /\ extractOut.done
          /\ extractArgs.content = Embedded(b, n, a, e)
          /\ n \in Range(extractArgs.knownToolNames) )
            => extractOut.call = ParsedCall(n, a)

\* None of the known names occurs in the text.
NoKnownNameOccurs ==
    \A k \in Range(extractArgs.knownToolNames) : ~Includes(extractArgs.content, k)

\* C13, as stated: a text in which no known tool name occurs yields no call.
C13_NoNameNoCall ==
    (extractOut.done /\ NoKnownNameOccurs) => ~extractOut.call.found

\* C13, amended: every call the extractor returns names a tool of the known names
\* it was given; and a text without a backslash (hence without JSON escapes) in
\* which no known name occurs yields no call.
C13_CallsNameKnownTools ==
    extractOut.done =>
        /\ extractOut.call.found =>
               extractOut.call.name \in Range(extractArgs.knownToolNames)
        /\ (NoKnownNameOccurs /\ ~Includes(extractArgs.content, <<"\\">>))
               => ~extractOut.call.found

\* A call object naming a tool that is not known yielded no call.
C13_Witness ==
    /\ extractOut.done
    /\ extractArgs.content = TextUnknownTool
    /\ extractArgs.knownToolNames = <<T_get_all_houses, T_create_room>>
    /\ ~extractOut.call.found

(***************************************************************************)
(* Claims about the tool gateway.                                          *)
(***************************************************************************)

\* error.response?.data?.error || error.message, for the answer of the backend.
ReportedError(answer) ==
    IF answer.kind = "status"
    THEN OrElse(GetProperty(answer.data, K_error), JString(answer.message))
    ELSE JString(answer.message)

\* C16: executeMcpTool never throws for a failure of the backend (no answer, a
\* status outside 2xx, an error reported by the backend): it returns the value
\* {success: false, error}; on success it returns the payload of the backend
\* unchanged.
C16_FailuresReturned ==
    executeOut.done =>
        /\ ~executeOut.threw
        /\ executeArgs.answer.kind = "2xx" => executeOut.value = executeArgs.answer.data
        /\ executeArgs.answer.kind # "2xx" =>
              /\ executeOut.value.t = "object"
              /\ executeOut.value.keys = <<K_success, K_error>>
              /\ GetProperty(executeOut.value, K_success) = JFalse
              /\ GetProperty(executeOut.value, K_error) = ReportedError(executeArgs.answer)
              /\ Truthy(GetProperty(executeOut.value, K_error))

\* C16 witness: the backend could not be reached and the call returned the failure
\* value with the message of the error.
C16_Witness ==
    /\ executeOut.done
    /\ ~executeOut.threw
    /\ executeArgs.answer.kind = "network"
    /\ executeOut.value = JObject(<<K_success, K_error>>, <<JFalse, JString(MsgRefused)>>)

(***************************************************************************)
(* Claims about the orchestrator.                                          *)
(***************************************************************************)

\* The tool invocations a pass has sent.
ToolRequests(p) == SelectSeq(pass[p].requests, LAMBDA r : r.to = "tools/call")

\* The pass has returned.
Returned(p) == pass[p].pc = "done"

\* C1: in one pass the number of tool executions (entries of toolResults, results
\* and errors alike) never exceeds maxToolCalls, however many calls the model
\* proposes; of 8 proposed calls exactly 5 are executed, the other 3 are never
\* sent, and the toolsCalled of the response has length 5.
C1_ToolCallsCapped ==
    \A p \in PassIds :
        /\ Len(pass[p].toolResults) <= maxToolCalls
        /\ Len(pass[p].toolResults) = pass[p].toolCallsExecuted
        /\ Len(ToolRequests(p)) <= maxToolCalls
        /\ (pass[p].pc \in {"awaitSummary", "done"} /\ Len(pass[p].toolCalls) = 8) =>
              /\ Len(pass[p].toolResults) = 5
              /\ Len(ToolRequests(p)) = 5
        /\ (Returned(p) /\ pass[p].response.success) =>
              /\ Len(pass[p].response.toolsCalled) = Min(Len(pass[p].toolCalls), maxToolCalls)
              /\ Len(pass[p].response.toolsCalled) <= maxToolCalls

\* C1 witness: the model proposed 8 calls and the pass returned 5 tools called.
C1_Witness ==
    \E p \in PassIds :
        /\ Returned(p) /\ pass[p].response.success
        /\ Len(pass[p].toolCalls) = 8
        /\ Len(pass[p].response.toolsCalled) = 5

\* Messages the classifier is to take for conversation.
ConversationalExamples == {MsgHello, MsgHelloCap, MsgCamOn}

\* C2: for a conversational message the pass sends exactly one request, a model
\* request without tools; it never lists the catalog, never invokes a tool
\* whatever the model replies, and returns toolsCalled = [].
C2_ConversationalNoTools ==
    \A p \in PassIds :
        (/\ pass[p].pc # "idle"
         /\ \/ pass[p].userMessage \in ConversationalExamples
            \/ isConversationalMessage(pass[p].userMessage)) =>
            /\ pass[p].requests = <<ModelRequest("chat", <<>>)>>
            /\ pass[p].toolResults = <<>>
            /\ pass[p].toolCallsExecuted = 0
            /\ Returned(p) => /\ pass[p].response.toolsCalled = <<>>
                              /\ pass[p].response.toolResults = <<>>

\* C2 witness: a Vietnamese thank-you was answered by the model's text.
C2_Witness ==
    \E p \in PassIds :
        /\ Returned(p) /\ pass[p].response.success
        /\ pass[p].userMessage = MsgCamOn
        /\ pass[p].response.response = ReplyText
        /\ Len(pass[p].requests) = 1

\* Where a pass can be: not begun, at one of its awaits, or returned.  A
\* rejected call would be none of these.
PassPositions ==
    {"idle", "awaitChat", "awaitList", "awaitDecide", "awaitRetry", "awaitTool",
     "awaitSummary", "done"}

\* C3: whatever the message and whatever the model and the tool backend do, an
\* error thrown at any stage included, processMessage resolves, never rejects,
\* and the object it resolves to holds a `response` string.
C3_AlwaysResolvesWithResponse ==
    \A p \in PassIds :
        /\ pass[p].pc \in PassPositions
        /\ Returned(p) =>
              /\ "response" \in DOMAIN pass[p].response
              /\ pass[p].response.response # Null
              /\ pass[p].response.response \in STRING
              /\ pass[p].response.response # ""

\* C3 witness: the summary request failed after tools had run, and the pass
\* returned a response all the same.
C3_Witness ==
    \E p \in PassIds :
        /\ Returned(p) /\ ~pass[p].response.success
        /\ Len(pass[p].toolResults) > 0
        /\ pass[p].error = LlmError

\* C4: whenever a stage throws, the value returned has success = false, an
\* `error` field, and the localized apology as its `response`, not the text of
\* the error.
C4_FailureShape ==
    \A p \in PassIds :
        (Returned(p) /\ pass[p].error # "") =>
            /\ ~pass[p].response.success
            /\ "error" \in DOMAIN pass[p].response
            /\ pass[p].response.response = Apology

\* A step in which pass p returns a failure.
FailsNow(p) ==
    /\ pass[p].pc \notin {"idle", "done"}
    /\ pass'[p].pc = "done"
    /\ ~pass'[p].response.success

\* A step in which pass p returns a success.
SucceedsNow(p) ==
    /\ pass[p].pc \notin {"idle", "done"}
    /\ pass'[p].pc = "done"
    /\ pass'[p].response.success

\* C5: a pass that ends in failure leaves the history as it was before the pass:
\* the step in which it fails appends nothing, and no earlier step of it did, since
\* the history changes only when a pass succeeds or the history is cleared.
C5_FailureLeavesHistory ==
    [][/\ \A p \in PassIds : FailsNow(p) => conversationHistory' = conversationHistory
       /\ conversationHistory' # conversationHistory =>
             \/ conversationHistory' = <<>>
             \/ \E p \in PassIds :
                    /\ SucceedsNow(p)
                    /\ Len(conversationHistory') = Len(conversationHistory) + 2
                    /\ SubSeq(conversationHistory', 1, Len(conversationHistory))
                         = conversationHistory
      ]_vars

\* C5 witness: a pass has failed while the history holds the turns of earlier
\* messages.
C5_Witness ==
    \E p \in PassIds :
        /\ Returned(p) /\ ~pass[p].response.success
        /\ Len(pass[p].requests) >= 3
        /\ Len(conversationHistory) >= 2

\* A step in which pass p sends a tool invocation that carries a bearer token.
SendsTokenNow(p) ==
    /\ pass'[p].pc = "awaitTool"
    /\ Len(pass'[p].requests) = Len(pass[p].requests) + 1
    /\ pass'[p].requests[Len(pass'[p].requests)].to = "tools/call"
    /\ pass'[p].requests[Len(pass'[p].requests)].authorization # Null

\* C7: whenever a tool invocation of processMessage carries the bearer token of a
\* session, the clock at that moment is not past the expiresAt of that token, even
\* though the clock advances while the pass awaits the model and earlier calls.
C7_TokenNotSentPastExpiry ==
    [][\A p \in PassIds :
          SendsTokenNow(p) => now' <= pass'[p].sessionContext.expiresAt
      ]_vars


\* The requests a pass has sent to the model to decide on tools: the first one and
\* the retry.
DecisionRequests(p) ==
    SelectSeq(pass[p].requests, LAMBDA r : r.to = "model" /\ r.system \in {"decide", "retry"})

RetryRequests(p) ==
    SelectSeq(pass[p].requests, LAMBDA r : r.to = "model" /\ r.system = "retry")

\* The first decision call has just returned to pass p, without throwing.
FirstDecisionReturns(p) ==
    /\ pass[p].pc = "awaitDecide"
    /\ pass'[p] # pass[p]
    /\ pass'[p].error # LlmError

\* C14, the step of the first decision: the retry is issued exactly if the call
\* yields no tool call and the catalog offered is not empty.
C14_RetryIssuedIff ==
    \A p \in PassIds :
        FirstDecisionReturns(p) =>
            ( pass'[p].pc = "awaitRetry"
                <=> ( /\ Len(pass'[p].toolCalls) = 0
                      /\ Len(pass[p].requests[Len(pass[p].requests)].tools) > 0 ) )

\* C14, the step of the retry: whether or not the reply carries a call, the pass
\* goes on to the tools, to the summary or to its response, and asks for no
\* further decision.
C14_RetryAccepted ==
    \A p \in PassIds :
        (pass[p].pc = "awaitRetry" /\ pass'[p] # pass[p]) =>
            /\ pass'[p].pc \in {"awaitTool", "awaitSummary", "done"}
            /\ DecisionRequests(p)' = DecisionRequests(p)

\* C14: the retry with the stricter instruction is issued if and only if the first
\* decision call yields no tool call and the filtered catalog offered is not empty;
\* it is issued at most once per message, so that no pass makes more than two
\* decision calls; and the retry's outcome is accepted whether or not it yields a
\* call.
C14_RetryOnce ==
    /\ [](\A p \in PassIds :
             /\ Len(RetryRequests(p)) <= 1
             /\ Len(DecisionRequests(p)) <= 2
             /\ pass[p].pc = "awaitRetry" =>
                   pass[p].requests[Len(pass[p].requests)].system = "retry")
    /\ [][C14_RetryIssuedIff /\ C14_RetryAccepted]_vars

\* C14 witness: a pass whose retry, too, yielded no call has returned the first
\* reply's text, after two decision calls.
C14_Witness ==
    \E p \in PassIds :
        /\ Returned(p) /\ pass[p].response.success
        /\ Len(RetryRequests(p)) = 1
        /\ Len(DecisionRequests(p)) = 2
        /\ pass[p].response.toolsCalled = <<>>
        /\ pass[p].response.response = ReplyText

\* Pass p has returned from a message that is not conversational, the listing of
\* the tool backend gave an empty catalog, and the model answered with a message.
AnsweredWithoutCatalog(p) ==
    /\ Returned(p)
    /\ ~isConversationalMessage(pass[p].userMessage)
    /\ Len(pass[p].requests) >= 2
    /\ pass[p].requests[2] = ModelRequest("decide", <<>>)
    /\ pass[p].allTools = <<>>
    /\ pass[p].message.present

\* C15: when the listing of the tool backend fails or returns nothing, the catalog
\* is empty and no error is raised; for a message that is not conversational the
\* pass then issues no retry, invokes no tool, and returns success = true with the
\* model's direct text reply and toolsCalled = [].
C15_EmptyCatalogDirectReply ==
    \A p \in PassIds :
        AnsweredWithoutCatalog(p) =>
            /\ RetryRequests(p) = <<>>
            /\ ToolRequests(p) = <<>>
            /\ pass[p].toolResults = <<>>
            /\ pass[p].response.success
            /\ pass[p].response.toolsCalled = <<>>
            /\ pass[p].response.response = DirectReplyText(pass[p])

\* The two turns of one message, as pass p holds them once it has returned.
TurnsOf(p) ==
    << [role |-> "user", content |-> pass[p].userMessage,
        sessionId |-> Sid(pass[p].sessionId)],
       [role |-> "assistant", content |-> pass[p].response.response,
        sessionId |-> Sid(pass[p].sessionId)] >>

\* What a turn of the history says: whose it is, its text and its session.
TurnSaid(turn) == [role |-> turn.role, content |-> turn.content, sessionId |-> turn.sessionId]

\* The history is a sequence of pairs: a user turn, then the assistant turn of the
\* same session.
HistoryInPairs ==
    /\ Len(conversationHistory) % 2 = 0
    /\ \A i \in DOMAIN conversationHistory :
          i % 2 = 1 =>
             /\ conversationHistory[i].role = "user"
             /\ conversationHistory[i + 1].role = "assistant"
             /\ conversationHistory[i + 1].sessionId = conversationHistory[i].sessionId

\* Pass p returns a success in this step and the history grows by its two turns,
\* next to each other, after the turns that were there.
AppendsOwnPair(p) ==
    /\ pass[p].pc # "done"
    /\ pass'[p].pc = "done"
    /\ pass'[p].response.success
    /\ Len(conversationHistory') = Len(conversationHistory) + 2
    /\ SubSeq(conversationHistory', 1, Len(conversationHistory)) = conversationHistory
    /\ [i \in 1..2 |-> TurnSaid(conversationHistory'[Len(conversationHistory) + i])]
          = TurnsOf(p)'

\* A step changes the history only by clearing it or by appending the pair of the
\* one pass that returns; and a pass that returns a success appends its pair.
HistoryStep ==
    /\ conversationHistory' # conversationHistory =>
          \/ conversationHistory' = <<>>
          \/ \E p \in ConcurrentPassIds : AppendsOwnPair(p)
    /\ \A p \in ConcurrentPassIds :
          (pass[p].pc # "done" /\ pass'[p].pc = "done" /\ pass'[p].response.success)
              => AppendsOwnPair(p)

\* C19: under any interleaving of the messages handled at once by the one
\* orchestrator, the writes to the history are serialized: the history is always a
\* sequence of adjacent (user turn, assistant turn) pairs, each pair of one
\* message, no turn of another message between them, and no turn lost.
C19_HistoryWritesSerialized == []HistoryInPairs /\ [][HistoryStep]_vars

\* C19 witness: two messages were in progress at once, and both pairs are in the
\* history, the pair of the pass that began second before the other.
C19_Witness ==
    /\ Len(conversationHistory) = 4
    /\ pass[1].pc = "done" /\ pass[2].pc = "done"
    /\ pass[1].userMessage = MsgRooms /\ pass[2].userMessage = MsgHello
    /\ Len(pass[1].requests) >= 3
    /\ [i \in 1..2 |-> TurnSaid(conversationHistory[i])] = TurnsOf(2)
    /\ [i \in 1..2 |-> TurnSaid(conversationHistory[2 + i])] = TurnsOf(1)

ListRequests(p) == SelectSeq(pass[p].requests, LAMBDA r : r.to = "tools/list")

ModelRequests(p) == SelectSeq(pass[p].requests, LAMBDA r : r.to = "model")

\* The requests of a pass stay within: one catalog fetch, three model calls, and
\* maxToolCalls tool invocations.
WithinBudget ==
    \A p \in PassIds :
        /\ Len(ListRequests(p)) <= 1
        /\ Len(ModelRequests(p)) <= 3
        /\ Len(ToolRequests(p)) <= maxToolCalls
        /\ Len(pass[p].requests)
              = Len(ListRequests(p)) + Len(ModelRequests(p)) + Len(ToolRequests(p))

\* Pass p is suspended at one of its awaits.
InProgress(p) == pass[p].pc \notin {"idle", "done"}

\* The response of a pass that has returned is terminal: a success, or the failure
\* of the pass as a whole, without tools called.
TerminalResponse(p) ==
    /\ Returned(p)
    /\ pass[p].response.success \in BOOLEAN
    /\ ~pass[p].response.success => pass[p].response.toolsCalled = <<>>

\* C20: every outbound call to the model and to the tool backend being answered
\* in the end, every processMessage pass reaches a terminal response (success, or
\* failure as a whole), after at most one catalog fetch, at most three model calls
\* (decide, retry, summarize) and at most maxToolCalls tool invocations.
C20_PassTerminates ==
    /\ []WithinBudget
    /\ \A p \in PassIds : InProgress(p) ~> TerminalResponse(p)

\* C20 witness: a pass has returned a success after the catalog fetch, the three
\* model calls and maxToolCalls tool invocations.
C20_Witness ==
    \E p \in PassIds :
        /\ TerminalResponse(p) /\ pass[p].response.success
        /\ Len(ListRequests(p)) = 1
        /\ Len(ModelRequests(p)) = 3
        /\ Len(ToolRequests(p)) = maxToolCalls

(***************************************************************************)
(* Claims about the results of the execution loop and about the summary.   *)
(***************************************************************************)

\* An entry of toolResults that records a failing invocation: the try block threw,
\* or executeMcpTool returned its failure value {success: false, error}.
FailedEntry(entry) ==
    \/ entry.hasError
    \/ entry.hasResult /\ GetProperty(entry.result, K_success) = JFalse

\* The loop of Stage 5 is over.
LoopOver(p) ==
    \/ pass[p].pc = "awaitSummary"
    \/ pass[p].pc = "done" /\ pass[p].response.success /\ ~isConversationalMessage(pass[p].userMessage)

\* C21: a failing tool invocation does not abort the loop and counts toward the
\* cap: every entry of toolResults is counted, no entry carries both a result and
\* an error, the entry of a failing invocation carries an error message and no
\* result, and once the loop is over min(proposed calls, maxToolCalls) entries
\* have been pushed, whatever failed.
C21_FailuresCaptured ==
    \A p \in PassIds :
        /\ Len(pass[p].toolResults) = pass[p].toolCallsExecuted
        /\ \A i \in DOMAIN pass[p].toolResults :
               /\ ~(pass[p].toolResults[i].hasResult /\ pass[p].toolResults[i].hasError)
               /\ FailedEntry(pass[p].toolResults[i]) =>
                      /\ pass[p].toolResults[i].hasError
                      /\ pass[p].toolResults[i].error # Null
                      /\ ~pass[p].toolResults[i].hasResult
        /\ LoopOver(p) =>
               Len(pass[p].toolResults) = Min(Len(pass[p].toolCalls), maxToolCalls)

\* What holds of C21 in the code: failures are counted and do not end the loop,
\* and no entry carries both a result and an error.
C21_FailuresCounted ==
    \A p \in PassIds :
        /\ Len(pass[p].toolResults) = pass[p].toolCallsExecuted
        /\ \A i \in DOMAIN pass[p].toolResults :
               pass[p].toolResults[i].hasResult # pass[p].toolResults[i].hasError
        /\ LoopOver(p) =>
               Len(pass[p].toolResults) = Min(Len(pass[p].toolCalls), maxToolCalls)

(***************************************************************************)
(* Claims about the classifier of tool names.                              *)
(***************************************************************************)

ToolCategories ==
    {"auth", "house", "room", "tenant", "contract", "service", "invoice", "user", "other"}

\* The filter has run on a catalog of one tool for a message whose categories
\* are known: the tool is kept exactly if its category is among them.
KeptByFilter == filterOut.done /\ Len(filterOut.tools) = 1

\* C22: the classifier maps every tool name to exactly one of the nine
\* categories, and a name that contains both "room" and "service" is of the
\* category service, not room: the filter keeps such a tool for a message that
\* asks for services only, and drops it for a message that asks for rooms and
\* houses only.
C22_MostSpecificCategory ==
    \A i \in DOMAIN filterArgs.allTools :
        /\ getToolCategory(filterArgs.allTools[i].name) \in ToolCategories
        /\ (/\ Includes(filterArgs.allTools[i].name, S_room)
            /\ Includes(filterArgs.allTools[i].name, S_service)
            /\ ~Includes(filterArgs.allTools[i].name, S_login)
            /\ ~Includes(filterArgs.allTools[i].name, S_house)) =>
               /\ getToolCategory(filterArgs.allTools[i].name) = "service"
               /\ (filterOut.done /\ filterOut.categories = <<"service">>) => KeptByFilter
               /\ (filterOut.done /\ filterOut.categories = <<"house", "room">>) =>
                      ~KeptByFilter

(***************************************************************************)
(* Claims about the order of the extractor's strategies.                   *)
(***************************************************************************)

\* The tool a call object names, and whether the call list knows it.
NamedTool(candidate) == GetProperty(candidate, K_tool).s

NamesKnownTool(candidate) == NamedTool(candidate) \in Range(extractArgs.knownToolNames)

\* The call a reply of two call objects is to yield: that of the first of the two
\* that names a known tool.
FirstKnownOf(c1, c2) ==
    IF NamesKnownTool(c1) THEN c1 ELSE c2

\* The extractor returned the call the object describes: its tool, and its
\* arguments if they are an object.
ReturnedCallOf(candidate) ==
    /\ extractOut.call.found
    /\ extractOut.call.name = NamedTool(candidate)
    /\ GetProperty(candidate, K_args).t = "object" =>
           extractOut.call.arguments = GetProperty(candidate, K_args)

\* C23: the strategies apply in a fixed order and the first that succeeds
\* decides.  A text that is one call object yields that call even if its
\* arguments mention a known name that comes earlier in the list of names; of
\* two call objects in one reply, the first in the text that names a known tool
\* is the call returned, whatever the order of the names in the list, and there
\* is no call if neither names a known tool.
C23_StrategiesInOrder ==
    extractOut.done =>
        /\ ( /\ extractArgs.content = Stringify(CallWrapper(T_create_room, ArgMention))
             /\ T_create_room \in Range(extractArgs.knownToolNames) )
               => extractOut.call = ParsedCall(T_create_room, ArgMention)
        /\ \A c1 \in CandidateCalls, c2 \in CandidateCalls :
               extractArgs.content = TwoCalls(c1, c2) =>
                   IF NamesKnownTool(c1) \/ NamesKnownTool(c2)
                   THEN ReturnedCallOf(FirstKnownOf(c1, c2))
                   ELSE ~extractOut.call.found

\* What holds of C23 in the code: the same, for call objects whose arguments are
\* objects.
C23_ObjectArgumentsInOrder ==
    extractOut.done =>
        \A c1 \in CandidateCalls, c2 \in CandidateCalls :
            ( /\ extractArgs.content = TwoCalls(c1, c2)
              /\ GetProperty(c1, K_args).t = "object"
              /\ GetProperty(c2, K_args).t = "object" ) =>
                IF NamesKnownTool(c1) \/ NamesKnownTool(c2)
                THEN ReturnedCallOf(FirstKnownOf(c1, c2))
                ELSE ~extractOut.call.found

\* The entry that Stage 5 pushes for a call whose arguments are a string that is
\* no JSON.
UnparseableArgsEntry(entry) == entry.hasError /\ entry.error = JsonSyntaxError

\* C24: the extractor raises nothing: for every reply text and every list of known
\* names it returns no call, or one call that names a known tool and carries
\* arguments.  No malformed reply of the deciding model (a truncated object, a
\* stray brace, an unknown tool, a call whose arguments are a string that is no
\* JSON) makes the pass end in failure: the call with unparseable arguments becomes
\* an error entry of toolResults and the pass returns a success.
C24_MalformedRepliesTolerated ==
    /\ extractOut.done =>
           \/ extractOut.call = NoParsedCall
           \/ /\ extractOut.call.found
              /\ extractOut.call.name \in Range(extractArgs.knownToolNames)
              /\ extractOut.call.arguments.t # "undefined"
    /\ \A p \in PassIds :
           /\ pass[p].pc # "catch"
           /\ Returned(p) => pass[p].response.success

\* A pass has returned a success although its model proposed a call with
\* arguments that are no JSON, and the extractor has returned such a call.
C24_Witness ==
    /\ extractOut.done
    /\ extractOut.call.found
    /\ extractOut.call.arguments = JString(V_oops)
    /\ \E p \in PassIds :
           /\ Returned(p)
           /\ pass[p].response.success
           /\ Len(pass[p].toolCalls) = 1
           /\ pass[p].toolCalls[1].arguments = JString(V_oops)
           /\ UnparseableArgsEntry(pass[p].toolResults[1])

SummaryRequests(p) ==
    SelectSeq(pass[p].requests, LAMBDA r : r.to = "model" /\ r.system = "summary")

\* message.content || (isVietnamese ? ... : ...), the language detected on the
\* message of the user.
ReplyOrFallback(message, userMessage) ==
    IF message.content # "" THEN message.content
    ELSE IF isNonEnglish(userMessage) THEN SorryVi ELSE SorryEn

\* Pass p went past Stage 1 and has returned a success without executing a tool.
AnsweredDirectly(p) ==
    /\ Returned(p)
    /\ pass[p].response.success
    /\ ~isConversationalMessage(pass[p].userMessage)
    /\ Len(pass[p].toolResults) = 0

\* The summary asked for at most once, and only with a tool executed; a pass that
\* has returned with tools executed has asked for it.
SummaryOnceIffExecuted(p) ==
    /\ Len(SummaryRequests(p)) <= 1
    /\ Len(SummaryRequests(p)) = 1 => Len(pass[p].toolResults) > 0
    /\ Returned(p) /\ Len(pass[p].toolResults) > 0 => Len(SummaryRequests(p)) = 1

\* A step in which pass p returns from the retry without having executed a tool:
\* the reply of the first decision stays the reply.
RetryKeepsReply(p) ==
    ( /\ pass[p].pc = "awaitRetry"
      /\ pass'[p].pc = "done"
      /\ pass'[p].response.success
      /\ Len(pass'[p].toolResults) = 0 )
        => pass'[p].response.response = ReplyOrFallback(pass[p].message, pass[p].userMessage)

\* C25: in a pass the model is asked for a summary exactly once if at least one
\* tool was executed (with a result or with an error) and not at all otherwise; a
\* pass that succeeds past Stage 1 without a tool executed answers with the text of
\* the model's original reply (the first one, also after a retry), or with the
\* fallback in the language detected on the user's message if that text is empty.
C25_SummaryOnlyAfterTools ==
    /\ [](\A p \in PassIds :
            /\ SummaryOnceIffExecuted(p)
            /\ AnsweredDirectly(p) =>
                   pass[p].response.response =
                       ReplyOrFallback(pass[p].message, pass[p].userMessage))
    /\ [][\A p \in PassIds : RetryKeepsReply(p)]_vars

\* A pass has answered a Vietnamese message with the Vietnamese fallback, the
\* reply and the retry's reply being empty, without a summary.
C25_Witness ==
    \E p \in PassIds :
        /\ AnsweredDirectly(p)
        /\ Len(RetryRequests(p)) = 1
        /\ Len(SummaryRequests(p)) = 0
        /\ pass[p].isVietnamese
        /\ pass[p].response.response = SorryVi

\* The element of the summary input holds error information: an error member of
\* its own, or one in the result it carries.
CarriesError(element) ==
    \/ GetProperty(element, K_error) # JUndefined
    \/ GetProperty(GetProperty(element, K_result), K_error) # JUndefined

\* Pass p has sent the summary prompt.
SummaryAsked(p) == Len(SummaryRequests(p)) = 1

\* C26: every tool invocation failure of a pass is included in the summarization
\* step: for each failed entry of toolResults, returned by the gateway as a failure
\* value or pushed when the execution raised, the element of the summary input that
\* stands for it holds the error information.
C26_FailuresSummarised ==
    \A p \in PassIds :
        SummaryAsked(p) =>
            /\ Len(pass[p].summaryInput) = Len(pass[p].toolResults)
            /\ \A i \in DOMAIN pass[p].toolResults :
                   FailedEntry(pass[p].toolResults[i]) => CarriesError(pass[p].summaryInput[i])

\* What holds of C26 in the code: the failure values that the gateway returns are
\* in the summary input, with their error; of an execution that raised, the name
\* of the tool alone.
C26_ReturnedFailuresSummarised ==
    \A p \in PassIds :
        SummaryAsked(p) =>
            /\ Len(pass[p].summaryInput) = Len(pass[p].toolResults)
            /\ \A i \in DOMAIN pass[p].toolResults :
                   /\ GetProperty(pass[p].summaryInput[i], K_tool)
                          = JString(pass[p].toolResults[i].name)
                   /\ pass[p].toolResults[i].hasResult =>
                          GetProperty(pass[p].summaryInput[i], K_result)
                              = pass[p].toolResults[i].result
                   /\ pass[p].toolResults[i].hasError =>
                          pass[p].summaryInput[i].keys = <<K_tool>>

(***************************************************************************)
(* Claims about the conversation history and the context of the prompt.    *)
(***************************************************************************)

\* The two turns that a pass returning a success in this step has to leave: the
\* user's message, then the answer with the names of the tools called.
UserTurnOf(p, turn) ==
    /\ turn.role = "user"
    /\ turn.content = pass'[p].userMessage
    /\ turn.sessionId = Sid(pass'[p].sessionId)

AssistantTurnOf(p, turn) ==
    /\ turn.role = "assistant"
    /\ turn.content = pass'[p].response.response
    /\ turn.sessionId = Sid(pass'[p].sessionId)
    /\ turn.toolsCalled = [i \in DOMAIN pass'[p].toolResults |-> pass'[p].toolResults[i].name]

\* The history after the step is the history before it and two more turns, those
\* of pass p.
AppendsTwoTurns(p) ==
    /\ Len(conversationHistory') = Len(conversationHistory) + 2
    /\ SubSeq(conversationHistory', 1, Len(conversationHistory)) = conversationHistory
    /\ UserTurnOf(p, conversationHistory'[Len(conversationHistory) + 1])
    /\ AssistantTurnOf(p, conversationHistory'[Len(conversationHistory) + 2])

\* A step of the history: a pass returns a success and its two turns are appended,
\* or no pass does and the history stays or is cleared.
AppendOnlyStep ==
    IF \E p \in PassIds : SucceedsNow(p)
    THEN \E p \in PassIds : SucceedsNow(p) /\ AppendsTwoTurns(p)
    ELSE conversationHistory' = conversationHistory \/ conversationHistory' = <<>>

\* C27: every message handled with success appends exactly two turns, the user's
\* and then the assistant's, the latter with the names of the tools called; no
\* step removes or rewrites a turn except clearHistory, which removes all: the
\* length of the history is twice the number of successes since the last clear.
C27_TwoTurnsPerSuccess == [][AppendOnlyStep]_vars

\* The history holds the turns of four successes, one of them with a tool called,
\* which is more turns than the window of the prompt.
C27_Witness ==
    /\ Len(conversationHistory) = MaxTurns
    /\ \E i \in DOMAIN conversationHistory : conversationHistory[i].toolsCalled = <<T_create_room>>
    /\ \E p \in PassIds : Returned(p) /\ pass[p].response.success

\* A step in which pass p builds the messages of Stage 3 and asks the model.
AsksDecision(p) == pass[p].pc = "awaitList" /\ pass'[p].pc = "awaitDecide"

\* The prior turns among the messages m: all but the first and the last.
PriorTurns(m) == SubSeq(m, 2, Len(m) - 1)

\* The prior turns are the last Len(prior) turns of hist, in the order of hist.
LatestTurnsOf(prior, hist) ==
    /\ Len(prior) <= Len(hist)
    /\ \A j \in DOMAIN prior :
          /\ prior[j].role = hist[Len(hist) - Len(prior) + j].role
          /\ prior[j].content = hist[Len(hist) - Len(prior) + j].content

\* The messages m are the system prompt, the latest turns of hist, at most six and
\* all of them if hist has no more, and the message of the user.
BoundedContext(m, hist, userMessage) ==
    /\ Len(m) >= 2
    /\ m[1].role = "system"
    /\ m[Len(m)] = [role |-> "user", content |-> userMessage]
    /\ Len(PriorTurns(m)) = Min(Len(hist), 6)
    /\ LatestTurnsOf(PriorTurns(m), hist)

\* C28: the messages sent to the model in the decide step are the system prompt,
\* then at most the 6 most recent prior turns of the history in their order, then
\* the message of the user; however long the history, no more than 6 prior turns
\* are sent.
C28_ContextWindowBounded ==
    /\ [](\A p \in PassIds : Len(pass[p].messages) <= 6 + 2)
    /\ [][\A p \in PassIds :
            AsksDecision(p) =>
                BoundedContext(pass'[p].messages, conversationHistory, pass[p].userMessage)]_vars

\* The model is asked with six prior turns while the history holds eight, the
\* first of the six being the third turn of the history.
C28_Witness ==
    \E p \in PassIds :
        /\ pass[p].pc = "awaitDecide"
        /\ Len(conversationHistory) = 8
        /\ Len(PriorTurns(pass[p].messages)) = 6
        /\ PriorTurns(pass[p].messages)[1].role = "user"
        /\ PriorTurns(pass[p].messages)[1].content = conversationHistory[3].content

\* The prior turns are turns of the session of pass p.
OwnSessionTurns(p, prior, hist) ==
    \A j \in DOMAIN prior :
        hist[Len(hist) - Len(prior) + j].sessionId = Sid(pass[p].sessionId)

\* C29: sessions do not contaminate each other's context: the prior turns placed
\* among the messages of the decide step for a message of session S are turns
\* recorded for session S, never those of another session that the same
\* orchestrator has handled.
C29_NoCrossSessionContext ==
    [][\A p \in PassIds :
         AsksDecision(p) =>
             OwnSessionTurns(p, PriorTurns(pass'[p].messages), conversationHistory)]_vars

(***************************************************************************)
(* Claims about the session store.                                         *)
(***************************************************************************)

\* The entry that setToken leaves, the duration being d seconds at the time `at`.
CredentialOf(given, at, d) ==
    [present |-> TRUE, token |-> given.token, userId |-> given.userId,
     expiresAt |-> at + d * MsPerSecond,
     refreshToken |-> given.additionalData.refreshToken, loginTime |-> at]

\* C30: setToken overwrites: after setToken(token, userId, sessionId, options) the
\* entry of the session is the new credential, whatever it held before, with the
\* refreshToken of the options or none, and it expires at now + the duration of
\* the options for any duration supplied, at now + 3600 seconds if none is.
C30_SetTokenOverwrites ==
    ret.op = "setToken" =>
        sessions[Sid(ret.sessionId)] =
            CredentialOf(ret.given, ret.at,
                         IF ret.given.additionalData.hasExpiresIn
                         THEN ret.given.additionalData.expiresIn
                         ELSE DefaultExpiresIn)

\* What holds of C30 in the code: the same for every duration but zero, which is
\* taken for none.
C30_ZeroTakenForNone ==
    ret.op = "setToken" =>
        sessions[Sid(ret.sessionId)] =
            CredentialOf(ret.given, ret.at,
                         IF /\ ret.given.additionalData.hasExpiresIn
                            /\ ret.given.additionalData.expiresIn # 0
                         THEN ret.given.additionalData.expiresIn
                         ELSE DefaultExpiresIn)

(***************************************************************************)
(* Claims about the identity that the gateway attaches.                    *)
(***************************************************************************)

\* The context given to executeMcpTool carries a token.
CarriesToken(sessionContext) == sessionContext # AbsentContext /\ sessionContext.token # Null

\* C31: the gateway attaches the identity of the caller if and only if the session
\* is authenticated: the request of executeMcpTool has the Authorization header
\* (the token of the context) and the user-id header (the user of the context, or
\* "anonymous") exactly when the context it is given carries a token, and neither
\* header when no context is given or the context has no token.
C31_IdentityIffToken ==
    executeOut.done =>
        IF CarriesToken(executeArgs.sessionContext)
        THEN /\ executeOut.request.authorization = executeArgs.sessionContext.token
             /\ executeOut.request.userIdHeader # Null
             /\ executeArgs.sessionContext.userId # Null =>
                    executeOut.request.userIdHeader = executeArgs.sessionContext.userId
        ELSE /\ executeOut.request.authorization = Null
             /\ executeOut.request.userIdHeader = Null

\* The gateway was called with the context of a session that holds a token and no
\* user, and has sent the token and the user "anonymous".
C31_Witness ==
    /\ executeOut.done
    /\ CarriesToken(executeArgs.sessionContext)
    /\ executeArgs.sessionContext.userId = Null
    /\ executeOut.request.to = "tools/call"
    /\ executeOut.request.authorization = "tokA"
    /\ executeOut.request.userIdHeader = "anonymous"

\* C34: every context that getSessionContext returns is self-consistent:
\* isAuthenticated is true if and only if the token is not null, also when the
\* clock passes the expiry of the token between the two readings of the clock.
C34_ContextSelfConsistent ==
    ret.op = "getSessionContext" =>
        (ret.context.isAuthenticated <=> ret.context.token # Null)

\* What holds of C34 in the code: a context that carries a token says
\* isAuthenticated; a context that says isAuthenticated has no token if the entry
\* expired between the two readings, and the entry is then evicted.
C34_TokenImpliesAuthenticated ==
    ret.op = "getSessionContext" =>
        /\ ret.context.token # Null => ret.context.isAuthenticated
        /\ (ret.context.isAuthenticated /\ ret.context.token = Null) =>
               /\ ret.warned
               /\ ret.at <= ret.context.expiresAt
               /\ now > ret.context.expiresAt
               /\ ~sessions[Sid(ret.sessionId)].present

(***************************************************************************)
(* Claims about what a pass reports and which tools it invokes.            *)
(***************************************************************************)

\* C32: the tool executions already performed in a pass are recorded and not
\* rolled back: whatever stage fails afterwards (the summary request, say), the
\* response of the pass reports every tool executed, in toolsCalled and in
\* toolResults.
C32_ExecutedToolsReported ==
    \A p \in PassIds :
        Returned(p) =>
            /\ pass[p].response.toolsCalled = ToolNames(pass[p].toolResults)
            /\ pass[p].response.toolResults = pass[p].toolResults

\* What holds of C32 in the code: a pass that succeeds reports every tool
\* executed; a pass that fails reports none, whatever it has executed.
C32_ReportedOnSuccessOnly ==
    \A p \in PassIds :
        Returned(p) =>
            IF pass[p].response.success
            THEN /\ pass[p].response.toolsCalled = ToolNames(pass[p].toolResults)
                 /\ pass[p].response.toolResults = pass[p].toolResults
            ELSE /\ pass[p].response.toolsCalled = <<>>
                 /\ pass[p].response.toolResults = <<>>

\* The names of the filtered catalog that pass p offers to the model.
OfferedNames(p) == Range(KnownToolNames(pass[p].availableTools))

\* C33: every tool that a pass invokes through the gateway has a name of the
\* filtered catalog offered to the model in that pass, whether the call was read
\* from the text of the reply or taken from the native tool_calls; no tool is
\* invoked when that catalog is empty.
C33_InvokedToolsOffered ==
    \A p \in PassIds :
        \A i \in DOMAIN ToolRequests(p) : ToolRequests(p)[i].name \in OfferedNames(p)

\* What holds of C33 in the code: the calls read from the text of a reply name
\* tools of the catalog offered; the native tool_calls are taken as they come.
C33_TextCallsOffered ==
    \A p \in PassIds :
        \A reply \in AgentDomain.decideReplies :
            reply.tool_calls = <<>> =>
                \A i \in DOMAIN callOllamaWithTools(reply, pass[p].availableTools).toolCalls :
                    callOllamaWithTools(reply, pass[p].availableTools).toolCalls[i].name
                        \in OfferedNames(p)

(***************************************************************************)
(* Claims about the session that a pass sees.                              *)
(***************************************************************************)

\* The X-User-Id header that goes with the context: none without a token.
UserIdHeaderOf(sessionContext) ==
    IF sessionContext.token = Null THEN Null
    ELSE IF sessionContext.userId # Null THEN sessionContext.userId ELSE "anonymous"

\* Every tool invocation that pass p has sent carries the token and the user of
\* the context that the pass holds.
InvocationsCarrySnapshot(p) ==
    \A i \in DOMAIN ToolRequests(p) :
        /\ ToolRequests(p)[i].authorization = pass[p].sessionContext.token
        /\ ToolRequests(p)[i].userIdHeader = UserIdHeaderOf(pass[p].sessionContext)

\* A step of the pass p after its start: the context it holds is the one it held.
KeepsSnapshot(p) ==
    (pass[p].pc \notin {"idle", "done"}) => pass'[p].sessionContext = pass[p].sessionContext

\* A step in which pass p starts: the context it takes is that of the store at
\* this moment.
ReadsAtStart(p) ==
    (pass[p].pc \in {"idle", "done"} /\ pass'[p].pc \notin {"idle", "done"}) =>
        pass'[p].sessionContext.token = getToken(sessions', now, pass'[p].sessionId).token

\* C35: a pass uses one snapshot of the session: the context is read once, when
\* processMessage starts, and every tool invocation of the pass carries the token
\* and the user id of that snapshot, whatever setToken, logout or eviction happens
\* to the session while the pass awaits the model or a tool.
C35_OneSnapshotPerPass ==
    /\ [](\A p \in DOMAIN pass : InvocationsCarrySnapshot(p))
    /\ [][\A p \in DOMAIN pass : KeepsSnapshot(p) /\ ReadsAtStart(p)]_vars

\* A pass has sent two invocations with the token of its snapshot, the second
\* after the session was logged out or given another token.
C35_Witness ==
    \E p \in DOMAIN pass :
        /\ Len(ToolRequests(p)) = 2
        /\ ToolRequests(p)[2].authorization = "tokA"
        /\ pass[p].pc = "awaitTool"
        /\ sessions[Sid(pass[p].sessionId)].token # "tokA"

\* C36: for a chat request that supplies authToken t for session S, storing t and
\* reading the context of S happen in one step: the context of the pass carries t,
\* and so does every tool invocation of the pass, whatever other requests on S
\* (with other tokens, or a logout) run at the same time.
C36_SuppliedTokenCarried ==
    \A p \in DOMAIN pass :
        pass[p].authToken # Null =>
            /\ pass[p].sessionContext.token = pass[p].authToken
            /\ pass[p].sessionContext.isAuthenticated
            /\ \A i \in DOMAIN ToolRequests(p) :
                   ToolRequests(p)[i].authorization = pass[p].authToken

\* Two requests on the one session are under way, each with its own token, and
\* each has invoked a tool with its own token.
C36_Witness ==
    /\ pass[1].authToken = "tokA" /\ pass[2].authToken = "tokB"
    /\ pass[1].sessionId = pass[2].sessionId
    /\ pass[1].pc = "awaitTool" /\ pass[2].pc = "awaitTool"
    /\ ToolRequests(1)[1].authorization = "tokA"
    /\ ToolRequests(2)[1].authorization = "tokB"

====
